---- MODULE Spec2Model ----
(***************************************************************************)
(* Decoder and resolver of encoded annotations                             *)
(* (runtime/dex/dex_file_annotations.cc).                                  *)
(*                                                                         *)
(* Bytes are naturals 0..255, a byte range is a sequence of bytes and a    *)
(* cursor (a byte pointer) is a 1-based index into it.  Bit patterns wider *)
(* than a byte are little-endian byte sequences, so that 64-bit values     *)
(* are kept exactly.                                                       *)
(***************************************************************************)
EXTENDS Integers, Sequences, FiniteSets, TLC

VARIABLES
  buf,             \* the encoded value the codec is run on (backing bytes)
  wellFormed,      \* whether buf was built by the grammar of encoded values
  last,            \* the last codec call and what it returned
  annotation_set,  \* AnnotationSetItem: sequence of AnnotationItem
  targetSdk,       \* Runtime::Current()->GetTargetSdkVersion()
  found,           \* the last search call and what it returned
  visit,           \* VisitClassAnnotations: its position and local variables
  callback,        \* the last call made to the AnnotationVisitor, with its answer
  history,         \* how many visitor calls were made, whether one said break,
                   \* what was reported, and whether every answer went on inward
  callers          \* the calls that run concurrently: arguments and locals of each

vars == <<buf, wellFormed, last, annotation_set, targetSdk, found, visit, callback, history,
          callers>>

(***************************************************************************)
(* Bounds of the model.                                                    *)
(***************************************************************************)
MaxArraySize == 2   \* largest array size / annotation element count built
MaxNesting == 2     \* deepest nesting of arrays and annotations built
NumCallers == 2     \* calls that run concurrently over the same bytes

(***************************************************************************)
(* Format constants (DexFile::kDexAnnotation*, dex_file.h).  The tags of   *)
(* Boolean, Annotation and Array are those of the format table; the kinds  *)
(* are pairwise distinct and tags 1, 5, 7 .. 15 and 18 .. 22 are unused.   *)
(***************************************************************************)
kDexAnnotationByte == 0
kDexAnnotationShort == 2
kDexAnnotationChar == 3
kDexAnnotationInt == 4
kDexAnnotationLong == 6
kDexAnnotationFloat == 16
kDexAnnotationDouble == 17
kDexAnnotationString == 23
kDexAnnotationType == 24
kDexAnnotationField == 25
kDexAnnotationMethod == 26
kDexAnnotationEnum == 27
kDexAnnotationBoolean == 28
kDexAnnotationNull == 29
kDexAnnotationAnnotation == 30
kDexAnnotationArray == 31
kDexAnnotationValueTypeMask == 31
kDexAnnotationValueArgShift == 5

kDexVisibilityBuild == 0
kDexVisibilityRuntime == 1
kDexVisibilitySystem == 2

\* nullptr, for an AnnotationItem* (items are numbered from 1) and for a cursor
NullItem == 0
NullPtr == 0

RECURSIVE Pow2(_)
Pow2(n) == IF n = 0 THEN 1 ELSE 2 * Pow2(n - 1)

\* header_byte & kDexAnnotationValueTypeMask (the mask is 2^k - 1)
ValueType(header_byte) == header_byte % (kDexAnnotationValueTypeMask + 1)
\* a wrong variant: only two bits of the argument are kept
ValueArg_TwoBits(header_byte) == (header_byte \div Pow2(kDexAnnotationValueArgShift)) % 4

\* header_byte >> kDexAnnotationValueArgShift
ValueArg(header_byte) == header_byte \div Pow2(kDexAnnotationValueArgShift)

(***************************************************************************)
(* DecodeUnsignedLeb128(&ptr): unsigned LEB128, at most five bytes; the    *)
(* fifth byte contributes its low four bits to a 32-bit result.            *)
(***************************************************************************)
RECURSIVE Leb128From(_, _, _)
Leb128From(data, ptr, n) ==
  LET cur == data[ptr] IN
  IF cur > 127 /\ n < 4
    THEN LET rest == Leb128From(data, ptr + 1, n + 1)
         IN [val |-> (cur % 128) + 128 * rest.val, ptr |-> rest.ptr]
    ELSE [val |-> IF n = 4 THEN cur % 16 ELSE cur, ptr |-> ptr + 1]

DecodeUnsignedLeb128(data, ptr) == Leb128From(data, ptr, 0)

(***************************************************************************)
(* SkipAnnotationValue.  ret is "true", "false" or "fatal" (LOG(FATAL)     *)
(* aborts the process); ptr is *annotation_ptr when the call is over.      *)
(***************************************************************************)
\* a wrong variant: the Boolean label sits with the kinds that carry a payload
SkipWidthKinds_WithBoolean ==
  { kDexAnnotationByte, kDexAnnotationShort, kDexAnnotationChar, kDexAnnotationInt,
    kDexAnnotationLong, kDexAnnotationFloat, kDexAnnotationDouble, kDexAnnotationString,
    kDexAnnotationType, kDexAnnotationMethod, kDexAnnotationField, kDexAnnotationEnum,
    kDexAnnotationBoolean }

SkipWidthKinds ==
  { kDexAnnotationByte, kDexAnnotationShort, kDexAnnotationChar, kDexAnnotationInt,
    kDexAnnotationLong, kDexAnnotationFloat, kDexAnnotationDouble, kDexAnnotationString,
    kDexAnnotationType, kDexAnnotationMethod, kDexAnnotationField, kDexAnnotationEnum }

RECURSIVE SkipAnnotationValue(_, _)
RECURSIVE SkipArrayLoop(_, _, _)
RECURSIVE SkipAnnotationLoop(_, _, _)

\* for (; size != 0u; --size) { if (!SkipAnnotationValue(...)) return false; }
SkipArrayLoop(data, annotation, size) ==
  IF size = 0
    THEN [ret |-> "true", ptr |-> annotation]
    ELSE LET r == SkipAnnotationValue(data, annotation)
         IN IF r.ret # "true" THEN r ELSE SkipArrayLoop(data, r.ptr, size - 1)

\* for (; size != 0u; --size) { DecodeUnsignedLeb128; if (!Skip...) return false; }
SkipAnnotationLoop(data, annotation, size) ==
  IF size = 0
    THEN [ret |-> "true", ptr |-> annotation]
    ELSE LET name == DecodeUnsignedLeb128(data, annotation)
             r == SkipAnnotationValue(data, name.ptr)
         IN IF r.ret # "true" THEN r ELSE SkipAnnotationLoop(data, r.ptr, size - 1)

SkipAnnotationValue(data, annotation_ptr) ==
  LET header_byte == data[annotation_ptr]
      annotation == annotation_ptr + 1
      value_type == ValueType(header_byte)
      value_arg == ValueArg(header_byte)
      width == value_arg + 1
  IN CASE value_type \in SkipWidthKinds ->
            [ret |-> "true", ptr |-> annotation + width]
       [] value_type = kDexAnnotationArray ->
            LET size == DecodeUnsignedLeb128(data, annotation)
                r == SkipArrayLoop(data, size.ptr, size.val)
            IN IF r.ret = "true"
                 THEN [ret |-> "true", ptr |-> r.ptr]
                 ELSE [ret |-> r.ret, ptr |-> annotation_ptr]
       [] value_type = kDexAnnotationAnnotation ->
            LET type_index == DecodeUnsignedLeb128(data, annotation)
                size == DecodeUnsignedLeb128(data, type_index.ptr)
                r == SkipAnnotationLoop(data, size.ptr, size.val)
            IN IF r.ret = "true"
                 THEN [ret |-> "true", ptr |-> r.ptr]
                 ELSE [ret |-> r.ret, ptr |-> annotation_ptr]
       [] value_type \in {kDexAnnotationBoolean, kDexAnnotationNull} ->
            [ret |-> "true", ptr |-> annotation]
       [] OTHER ->
            [ret |-> "fatal", ptr |-> annotation_ptr]

(***************************************************************************)
(* Reading scalar payloads (DexFile::ReadSignedInt, ReadUnsignedInt,       *)
(* ReadSignedLong, ReadUnsignedLong).  zwidth + 1 little-endian bytes are  *)
(* read; the result is the full-width bit pattern, little-endian.          *)
(***************************************************************************)
ReadBytes(data, ptr, n) == [i \in 1 .. n |-> data[ptr + i - 1]]

Zeros(n) == [i \in 1 .. n |-> 0]

\* the low n bytes of a bit pattern (a narrowing static_cast)
Truncate(bits, n) == SubSeq(bits, 1, n)

SignExtend(bits, n) ==
  bits \o [i \in 1 .. (n - Len(bits)) |-> IF bits[Len(bits)] >= 128 THEN 255 ELSE 0]

ZeroExtend(bits, n) == bits \o Zeros(n - Len(bits))

\* the stored bytes become the most significant ones (fill_on_right)
FillOnRight(bits, n) == Zeros(n - Len(bits)) \o bits

ReadSignedInt(data, ptr, zwidth) == SignExtend(ReadBytes(data, ptr, zwidth + 1), 4)

ReadUnsignedInt(data, ptr, zwidth, fill_on_right) ==
  IF fill_on_right
    THEN FillOnRight(ReadBytes(data, ptr, zwidth + 1), 4)
    ELSE ZeroExtend(ReadBytes(data, ptr, zwidth + 1), 4)

ReadSignedLong(data, ptr, zwidth) == SignExtend(ReadBytes(data, ptr, zwidth + 1), 8)

ReadUnsignedLong(data, ptr, zwidth, fill_on_right) ==
  IF fill_on_right
    THEN FillOnRight(ReadBytes(data, ptr, zwidth + 1), 8)
    ELSE ZeroExtend(ReadBytes(data, ptr, zwidth + 1), 8)

\* the number a little-endian bit pattern denotes, read as unsigned
RECURSIVE ToNat(_)
ToNat(bits) == IF bits = <<>> THEN 0 ELSE bits[1] + 256 * ToNat(Tail(bits))

(***************************************************************************)
(* Objects of the managed heap, classes and JValue.                        *)
(*   JValue is a union: member names the member last written, bits its     *)
(*   bit pattern (primitives), l the reference (member "L").  "U" is a     *)
(*   JValue nobody wrote yet.                                              *)
(***************************************************************************)
NullObject == [cls |-> "null"]

NullClass == [dims |-> 0, base |-> "null"]
ArrayClassOf(base, dims) == [dims |-> dims, base |-> base]
PrimitiveBases == {"Z", "B", "S", "C", "I", "J", "F", "D"}

IsArrayClass(klass) == klass.dims > 0
IsPrimitive(klass) == klass.dims = 0 /\ klass.base \in PrimitiveBases
GetComponentType(klass) ==
  IF IsArrayClass(klass) THEN [dims |-> klass.dims - 1, base |-> klass.base] ELSE NullClass

JValueOf(member, bits) == [member |-> member, bits |-> bits, l |-> NullObject]
UninitializedJValue == JValueOf("U", <<>>)
SetL(obj) == [member |-> "L", bits |-> <<>>, l |-> obj]
\* reading the reference member of a union that holds a primitive gives the
\* primitive's bits taken for a reference
GetL(jvalue) ==
  IF jvalue.member = "L" THEN jvalue.l ELSE [cls |-> "not-a-reference", raw |-> jvalue.bits]

BoxPrimitive(primitive_type, jvalue) ==
  [cls |-> "Boxed", prim |-> primitive_type, boxed |-> jvalue.bits]

(***************************************************************************)
(* The container's tables and the resolution service (ClassLinker).        *)
(***************************************************************************)
\* dex_file.GetStringData(dex_file.GetStringId(idx))
StringData == (0 :> "a") @@ (1 :> "b") @@ (2 :> "value")
\* dex_file.GetTypeDescriptor(idx)
TypeDescriptor == (0 :> "LA;") @@ (1 :> "LB;") @@ (2 :> "LMissing;") @@ (200 :> "LGone;")

ResolvableStrings == {0, 1, 2}
ResolvableTypes == {0, 1}
ResolvableMethods == {0, 1}
ConstructorMethods == {1}
ResolvableFields == {0, 1}

\* annotation_class->FindDeclaredVirtualMethodByName(name), then
\* annotation_method->ResolveReturnType(); NullClass when there is no method
AnnotationMethodReturn(type_index, name) ==
  CASE type_index = 0 /\ name = "a" -> ArrayClassOf("I", 1)
    [] type_index = 0 /\ name = "b" -> ArrayClassOf("Ljava/lang/String;", 1)
    [] type_index = 0 /\ name = "value" -> ArrayClassOf("I", 2)
    [] type_index = 1 /\ name = "a" -> ArrayClassOf("Ljava/lang/Object;", 1)
    [] type_index = 1 /\ name = "value" -> ArrayClassOf("I", 1)
    [] OTHER -> NullClass

kAllObjects == "kAllObjects"
kPrimitivesOrObjects == "kPrimitivesOrObjects"
kAllRaw == "kAllRaw"
ResultStyles == {kAllObjects, kPrimitivesOrObjects, kAllRaw}

(***************************************************************************)
(* ProcessAnnotationValue, ProcessEncodedAnnotation, CreateAnnotationMember*)
(*   ret    "true", "false" or "fatal" (LOG(FATAL))                        *)
(*   ptr    *annotation_ptr when the call is over                          *)
(*   value  *annotation_value when the call is over                        *)
(*   exc    whether an exception is pending on the thread at return        *)
(*   calls  how many calls to the resolution service were made             *)
(* Allocation is taken to succeed.  An array_class that is no array class  *)
(* has no component type to dereference; that call is taken to abort.      *)
(***************************************************************************)
ProcessResult(ret, ptr, type_, value_, exc, calls) ==
  [ret |-> ret, ptr |-> ptr, value |-> [type_ |-> type_, value_ |-> value_],
   exc |-> exc, calls |-> calls]

\* a wrong variant: the result is never boxed
ProcessTail_NeverBoxes(ptr, type_, value_, primitive_type, set_object, element_object, result_style, calls) ==
  ProcessResult("true", ptr, type_, IF set_object THEN SetL(element_object) ELSE value_,
                FALSE, calls)

\* lines 681-693: the common tail of a value that was decoded
ProcessTail(ptr, type_, value_, primitive_type, set_object, element_object, result_style, calls) ==
  LET box == result_style = kAllObjects /\ primitive_type # "V"
      object == IF box THEN BoxPrimitive(primitive_type, value_) ELSE element_object
  IN ProcessResult("true", ptr, type_,
                   IF box \/ set_object THEN SetL(object) ELSE value_, FALSE, calls)

\* the typed store of a primitive array slot (lines 612-648); "none" is the
\* default branch
PrimitiveStoreOf(type_) ==
  CASE type_ = kDexAnnotationByte -> "B"
    [] type_ = kDexAnnotationShort -> "S"
    [] type_ = kDexAnnotationChar -> "C"
    [] type_ = kDexAnnotationInt -> "I"
    [] type_ = kDexAnnotationLong -> "J"
    [] type_ = kDexAnnotationFloat -> "F"
    [] type_ = kDexAnnotationDouble -> "D"
    [] type_ = kDexAnnotationBoolean -> "Z"
    [] OTHER -> "none"

\* a wrong variant: the stored bytes of a Float or Double become the low ones
FloatFillsOnRight_Not == FALSE

\* lines 456 and 460: ReadUnsignedInt / ReadUnsignedLong (annotation, value_arg, true)
FloatFillsOnRight == TRUE

\* a wrong variant: the resolver's exception is cleared before the return
UnresolvedReference_Cleared(annotation_ptr, value_type) ==
  [ret |-> "false", ptr |-> annotation_ptr,
   value |-> [type_ |-> value_type, value_ |-> UninitializedJValue],
   exc |-> FALSE, calls |-> 1]

\* a wrong variant: the cursor is left past the header byte
UnresolvedReference_PastHeader(annotation_ptr, value_type) ==
  [ret |-> "false", ptr |-> annotation_ptr + 1,
   value |-> [type_ |-> value_type, value_ |-> UninitializedJValue],
   exc |-> TRUE, calls |-> 1]

\* lines 477-479, 520-522, 550-552, 572-574: the resolver returned null and
\* left its exception pending; return false
UnresolvedReference(annotation_ptr, value_type) ==
  [ret |-> "false", ptr |-> annotation_ptr,
   value |-> [type_ |-> value_type, value_ |-> UninitializedJValue],
   exc |-> TRUE, calls |-> 1]

\* a wrong variant: the exception stays pending
ClearException_Missing(pending) == pending

\* lines 373, 501 and 783: self->ClearException(); the value is whether an
\* exception is pending afterwards
ClearException(pending) == FALSE

\* a wrong variant: the stored index is kept for the wrong style
KeepsStoredIndex_WrongStyle(result_style) == result_style = kPrimitivesOrObjects

\* line 470 (and 485, 511, 542, 563): if (result_style == DexFile::kAllRaw)
KeepsStoredIndex(result_style) == result_style = kAllRaw

\* a wrong variant: the placeholder is substituted under every resolving style
SubstitutesTypeNotPresent_AnyStyle(result_style) == result_style # kAllRaw

\* line 497: if (result_style == DexFile::kAllObjects)
SubstitutesTypeNotPresent(result_style) == result_style = kAllObjects

\* a wrong variant: the check of array_class is missing
RefusesArray_RawOnly(result_style, array_class) == result_style = kAllRaw
\* a wrong variant: the raw style is not refused
RefusesArray_NullClassOnly(result_style, array_class) == array_class = NullClass

\* line 584: if (result_style == DexFile::kAllRaw || array_class == nullptr)
RefusesArray(result_style, array_class) ==
  result_style = kAllRaw \/ array_class = NullClass

\* a wrong variant: the slots of an array are decoded under kAllObjects
ArrayElementStyle_AllObjects == kAllObjects

\* line 604: the style ProcessAnnotationValue is called with for a slot
ArrayElementStyle == kPrimitivesOrObjects

RECURSIVE ProcessAnnotationValue(_, _, _, _)
RECURSIVE ProcessArrayLoop(_, _, _, _, _, _, _)
RECURSIVE ProcessEncodedAnnotation(_, _)
RECURSIVE CreateAnnotationMembers(_, _, _, _, _, _)

\* lines 599-650: for (uint32_t i = 0; i < size; ++i) { ... }; slots holds
\* what was stored so far
ProcessArrayLoop(data, annotation, i, size, component_type, slots, calls) ==
  IF i = size
    THEN [ret |-> "true", ptr |-> annotation, slots |-> slots, exc |-> FALSE,
          calls |-> calls]
    ELSE
      LET r == ProcessAnnotationValue(data, annotation, component_type,
                                      ArrayElementStyle)
          new_annotation_value == r.value
          store == PrimitiveStoreOf(new_annotation_value.type_)
          stop(ret) == [ret |-> ret, ptr |-> annotation, slots |-> slots,
                        exc |-> r.exc, calls |-> calls + r.calls]
      IN IF r.ret # "true" THEN stop(r.ret)
         ELSE IF ~IsPrimitive(component_type)
           THEN ProcessArrayLoop(data, r.ptr, i + 1, size, component_type,
                  Append(slots, [store |-> "L", prim |-> <<>>,
                                 obj |-> GetL(new_annotation_value.value_)]),
                  calls + r.calls)
         ELSE IF store = "none" THEN stop("fatal")
         ELSE ProcessArrayLoop(data, r.ptr, i + 1, size, component_type,
                  Append(slots, [store |-> store,
                                 prim |-> new_annotation_value.value_.bits,
                                 obj |-> NullObject]),
                  calls + r.calls)

\* lines 392-398 with CreateAnnotationMember (lines 696-756) inlined per member
CreateAnnotationMembers(data, annotation, i, size, type_index, members) ==
  IF i = size
    THEN [ret |-> "true", ptr |-> annotation, members |-> members, exc |-> FALSE,
          calls |-> 0]
    ELSE
      LET element_name_index == DecodeUnsignedLeb128(data, annotation)
          name == StringData[element_name_index.val]
          method_return == AnnotationMethodReturn(type_index, name)
          r == ProcessAnnotationValue(data, element_name_index.ptr, method_return,
                                      kAllObjects)
      IN IF method_return = NullClass
           THEN [ret |-> "false", ptr |-> annotation, members |-> members,
                 exc |-> FALSE, calls |-> 0]
         ELSE IF r.ret # "true"
           THEN [ret |-> r.ret, ptr |-> annotation, members |-> members,
                 exc |-> r.exc, calls |-> r.calls]
         ELSE
           LET rest == CreateAnnotationMembers(data, r.ptr, i + 1, size, type_index,
                         Append(members, [name |-> name,
                                          member_value |-> GetL(r.value.value_),
                                          return_type |-> method_return]))
           IN [rest EXCEPT !.calls = @ + r.calls]

\* obj is the annotation object, NullObject for nullptr
ProcessEncodedAnnotation(data, annotation) ==
  LET type_index == DecodeUnsignedLeb128(data, annotation)
      size == DecodeUnsignedLeb128(data, type_index.ptr)
      m == CreateAnnotationMembers(data, size.ptr, 0, size.val, type_index.val, <<>>)
  IN IF type_index.val \notin ResolvableTypes
       THEN \* DCHECK(IsExceptionPending()); ClearException(); return nullptr
            [ret |-> "false", obj |-> NullObject, ptr |-> size.ptr,
             exc |-> ClearException(TRUE), calls |-> 1]
     ELSE IF m.ret # "true"
       THEN [ret |-> m.ret, obj |-> NullObject, ptr |-> m.ptr, exc |-> m.exc,
             calls |-> 1 + m.calls]
     ELSE [ret |-> "true",
           obj |-> [cls |-> "Annotation", annotation_type |-> type_index.val,
                    members |-> m.members],
           ptr |-> m.ptr, exc |-> FALSE, calls |-> 1 + m.calls]

ProcessAnnotationValue(data, annotation_ptr, array_class, result_style) ==
  LET header_byte == data[annotation_ptr]
      annotation == annotation_ptr + 1
      value_type == ValueType(header_byte)
      value_arg == ValueArg(header_byte)
      width == value_arg + 1
      \* return false / LOG(FATAL): *annotation_ptr and value_ are not written
      Return(ret, exc, calls) ==
        ProcessResult(ret, annotation_ptr, value_type, UninitializedJValue, exc, calls)
      Primitive(member, bits, primitive_type, w) ==
        ProcessTail(annotation + w, value_type, JValueOf(member, bits), primitive_type,
                    FALSE, NullObject, result_style, 0)
      Raw(index) ==
        ProcessTail(annotation + width, value_type, JValueOf("I", index), "V",
                    FALSE, NullObject, result_style, 0)
      Object(object, w, calls) ==
        ProcessTail(annotation + w, value_type, UninitializedJValue, "V",
                    TRUE, object, result_style, calls)
      index == ReadUnsignedInt(data, annotation, value_arg, FALSE)
  IN CASE value_type = kDexAnnotationByte ->
            Primitive("B", Truncate(ReadSignedInt(data, annotation, value_arg), 1), "B", width)
       [] value_type = kDexAnnotationShort ->
            Primitive("S", Truncate(ReadSignedInt(data, annotation, value_arg), 2), "S", width)
       [] value_type = kDexAnnotationChar ->
            Primitive("C", Truncate(ReadUnsignedInt(data, annotation, value_arg, FALSE), 2),
                      "C", width)
       [] value_type = kDexAnnotationInt ->
            Primitive("I", ReadSignedInt(data, annotation, value_arg), "I", width)
       [] value_type = kDexAnnotationLong ->
            Primitive("J", ReadSignedLong(data, annotation, value_arg), "J", width)
       [] value_type = kDexAnnotationFloat ->
            Primitive("I", ReadUnsignedInt(data, annotation, value_arg, FloatFillsOnRight),
                      "F", width)
       [] value_type = kDexAnnotationDouble ->
            Primitive("J", ReadUnsignedLong(data, annotation, value_arg, FloatFillsOnRight),
                      "D", width)
       [] value_type = kDexAnnotationBoolean ->
            Primitive("Z", <<IF value_arg # 0 THEN 1 ELSE 0>>, "Z", 0)
       [] value_type = kDexAnnotationString ->
            IF KeepsStoredIndex(result_style) THEN Raw(index)
            ELSE IF ToNat(index) \notin ResolvableStrings
              THEN UnresolvedReference(annotation_ptr, value_type)
            ELSE Object([cls |-> "String", string_idx |-> ToNat(index)], width, 1)
       [] value_type = kDexAnnotationType ->
            IF KeepsStoredIndex(result_style) THEN Raw(index)
            ELSE IF ToNat(index) \in ResolvableTypes
              THEN Object([cls |-> "Class", type_idx |-> ToNat(index)], width, 1)
            ELSE IF SubstitutesTypeNotPresent(result_style)
              THEN \* ThrowNewWrappedException; GetException(); ClearException()
                   [Object([cls |-> "TypeNotPresentException",
                            msg |-> TypeDescriptor[ToNat(index)]], width, 1)
                      EXCEPT !.exc = ClearException(TRUE)]
            ELSE Return("false", TRUE, 1)
       [] value_type = kDexAnnotationMethod ->
            IF KeepsStoredIndex(result_style) THEN Raw(index)
            ELSE IF ToNat(index) \notin ResolvableMethods
              THEN UnresolvedReference(annotation_ptr, value_type)
            ELSE Object([cls |-> IF ToNat(index) \in ConstructorMethods
                                   THEN "Constructor" ELSE "Method",
                         method_idx |-> ToNat(index)], width, 1)
       [] value_type = kDexAnnotationField ->
            IF KeepsStoredIndex(result_style) THEN Raw(index)
            ELSE IF ToNat(index) \notin ResolvableFields
              THEN UnresolvedReference(annotation_ptr, value_type)
            ELSE Object([cls |-> "Field", field_idx |-> ToNat(index)], width, 1)
       [] value_type = kDexAnnotationEnum ->
            IF KeepsStoredIndex(result_style) THEN Raw(index)
            ELSE IF ToNat(index) \notin ResolvableFields
              THEN UnresolvedReference(annotation_ptr, value_type)
            ELSE Object([cls |-> "EnumConstant", enum_field_idx |-> ToNat(index)], width, 1)
       [] value_type = kDexAnnotationArray ->
            IF RefusesArray(result_style, array_class)
              THEN Return("false", FALSE, 0)
            ELSE IF ~IsArrayClass(array_class) THEN Return("fatal", FALSE, 0)
            ELSE
              LET size == DecodeUnsignedLeb128(data, annotation)
                  component_type == GetComponentType(array_class)
                  r == ProcessArrayLoop(data, size.ptr, 0, size.val, component_type,
                                        <<>>, 0)
              IN IF r.ret # "true" THEN Return(r.ret, r.exc, r.calls)
                 ELSE Object([cls |-> "Array", klass |-> array_class, slots |-> r.slots],
                             r.ptr - annotation, r.calls)
       [] value_type = kDexAnnotationAnnotation ->
            IF result_style = kAllRaw THEN Return("false", FALSE, 0)
            ELSE
              LET r == ProcessEncodedAnnotation(data, annotation)
              IN IF r.ret # "true" THEN Return(r.ret, r.exc, r.calls)
                 ELSE Object(r.obj, r.ptr - annotation, r.calls)
       [] value_type = kDexAnnotationNull ->
            IF result_style = kAllRaw
              THEN ProcessTail(annotation, value_type, JValueOf("I", Zeros(4)), "V",
                               FALSE, NullObject, result_style, 0)
              ELSE Object(NullObject, 0, 0)
       [] OTHER ->
            \* LOG(ERROR) << "Bad annotation element value type"; return false
            Return("false", FALSE, 0)

(***************************************************************************)
(* Encoded values the codec is run on: every scalar kind at every width    *)
(* the format allows, and arrays and annotations nested MaxNesting deep.   *)
(***************************************************************************)
HeaderByte(value_type, value_arg) == value_arg * Pow2(kDexAnnotationValueArgShift) + value_type

RECURSIVE Flatten(_)
Flatten(seqs) == IF seqs = <<>> THEN <<>> ELSE Head(seqs) \o Flatten(Tail(seqs))

Repeat(e, n) == [i \in 1 .. n |-> e]

\* unsigned LEB128 of n < 2^14
Uleb128(n) == IF n < 128 THEN <<n>> ELSE <<128 + (n % 128), n \div 128>>

EncodedArray(elements) ==
  <<HeaderByte(kDexAnnotationArray, 0)>> \o Uleb128(Len(elements)) \o Flatten(elements)

\* the i-th element is named by string index (i - 1) % 3
EncodedAnnotationBody(type_index, values) ==
  Uleb128(type_index) \o Uleb128(Len(values))
    \o Flatten([i \in 1 .. Len(values) |-> Uleb128((i - 1) % 3) \o values[i]])

EncodedAnnotation(type_index, values) ==
  <<HeaderByte(kDexAnnotationAnnotation, 0)>> \o EncodedAnnotationBody(type_index, values)

PayloadPatterns == {"zero", "ascending", "ones", "top"}
Payload(pattern, width) ==
  [i \in 1 .. width |->
     CASE pattern = "zero" -> 0
       [] pattern = "ascending" -> i
       [] pattern = "ones" -> 255
       [] pattern = "top" -> IF i = width THEN 128 ELSE 0]

\* the largest value_arg the format allows for a kind
MaxValueArg(value_type) ==
  CASE value_type = kDexAnnotationByte -> 0
    [] value_type \in {kDexAnnotationShort, kDexAnnotationChar} -> 1
    [] value_type \in {kDexAnnotationLong, kDexAnnotationDouble} -> 7
    [] OTHER -> 3

NumericKinds ==
  { kDexAnnotationByte, kDexAnnotationShort, kDexAnnotationChar, kDexAnnotationInt,
    kDexAnnotationLong, kDexAnnotationFloat, kDexAnnotationDouble }
IndexKinds ==
  { kDexAnnotationString, kDexAnnotationType, kDexAnnotationMethod, kDexAnnotationField,
    kDexAnnotationEnum }
IndexValues == {0, 1, 2, 200}

NumericLeaves ==
  { <<HeaderByte(k, a)>> \o Payload(p, a + 1) :
      <<k, a, p>> \in { t \in NumericKinds \X (0 .. 7) \X PayloadPatterns :
                          t[2] <= MaxValueArg(t[1]) } }
IndexLeaves ==
  { <<HeaderByte(k, a)>> \o ZeroExtend(<<idx>>, a + 1) :
      <<k, a, idx>> \in IndexKinds \X (0 .. 3) \X IndexValues }
ArgOnlyLeaves ==
  { <<HeaderByte(k, a)>> : <<k, a>> \in {kDexAnnotationBoolean, kDexAnnotationNull} \X (0 .. 7) }
Leaves == NumericLeaves \cup IndexLeaves \cup ArgOnlyLeaves

\* the leaves arrays and annotations are built from
ElementLeaves ==
  { <<HeaderByte(kDexAnnotationInt, 1), 52, 18>>,
    <<HeaderByte(kDexAnnotationByte, 0), 133>>,
    <<HeaderByte(kDexAnnotationString, 0), 1>>,
    <<HeaderByte(kDexAnnotationType, 1), 2, 0>>,
    <<HeaderByte(kDexAnnotationBoolean, 1)>>,
    <<HeaderByte(kDexAnnotationNull, 0)>> }
AnnotationTypes == {0, 1, 200}

Wrap(elements) ==
  { EncodedArray(Repeat(e, n)) : <<e, n>> \in elements \X (0 .. MaxArraySize) }
  \cup { EncodedAnnotation(t, Repeat(e, n)) :
           <<t, e, n>> \in AnnotationTypes \X elements \X (0 .. MaxArraySize) }

MixedArrays ==
  { EncodedArray(<<e1, e2>>) : <<e1, e2>> \in ElementLeaves \X ElementLeaves }

RECURSIVE Nested(_)
Nested(depth) ==
  IF depth = 0 THEN ElementLeaves
  ELSE LET inner == Nested(depth - 1) IN inner \cup Wrap(inner) \cup MixedArrays

WellFormedValues == Leaves \cup Nested(MaxNesting)

\* values whose header byte, or that of an element, carries an unused tag
UnknownTags == {1, 5, 21}
MalformedValues ==
  { <<HeaderByte(t, a)>> : <<t, a>> \in UnknownTags \X {0, 3} }
  \cup { EncodedArray(<<e, <<HeaderByte(t, 0)>> >>) : <<e, t>> \in ElementLeaves \X UnknownTags }

ArrayClasses ==
  { NullClass, ArrayClassOf("I", 1), ArrayClassOf("I", 2),
    ArrayClassOf("Ljava/lang/String;", 1), ArrayClassOf("Ljava/lang/Object;", 2) }

(***************************************************************************)
(* The codec run on one value: Skip and Decode from the value's first byte.*)
(***************************************************************************)
NoAnnotationValue == [type_ |-> 255, value_ |-> UninitializedJValue]
NoCall ==
  [op |-> "none", style |-> "none", klass |-> NullClass, ret |-> "none", ptr |-> 1,
   value |-> NoAnnotationValue, exc |-> FALSE, calls |-> 0]
NoSearch == [op |-> "none"]
NoVisit == [pc |-> "idle", i |-> 1, annotation |-> NullPtr, size |-> 0, frames |-> <<>>]
NoCallback == [fn |-> "none"]
\* a call that has not been made: its arguments (call) and the locals of its
\* activations (run)
NoCallArguments == [op |-> "none", key |-> "", visibility |-> 0, start |-> 1]
NoRun ==
  [pc |-> "idle", frames |-> <<>>, i |-> 1, ret |-> "none", ptr |-> 1, item |-> 0,
   value |-> NoAnnotationValue]
NoCallers == [t \in 1 .. NumCallers |-> [call |-> NoCallArguments, run |-> NoRun]]
NoHistory == [count |-> 0, broke |-> FALSE, seen |-> <<>>, inner |-> TRUE]

CodecInit ==
  /\ \/ buf \in WellFormedValues /\ wellFormed = TRUE
     \/ buf \in MalformedValues /\ wellFormed = FALSE
  /\ last = NoCall
  /\ annotation_set = <<>>
  /\ targetSdk = 0
  /\ found = NoSearch
  /\ visit = NoVisit /\ callback = NoCallback /\ history = NoHistory
  /\ callers = NoCallers

\* const uint8_t* p = value; SkipAnnotationValue(dex_file, &p);
Skip ==
  /\ last.op = "none"
  /\ LET r == SkipAnnotationValue(buf, 1)
     IN last' = [NoCall EXCEPT !.op = "Skip", !.ret = r.ret, !.ptr = r.ptr]
  /\ UNCHANGED <<buf, wellFormed, annotation_set, targetSdk, found, visit, callback, history,
               callers>>

\* const uint8_t* p = value; ProcessAnnotationValue(klass, &p, &v, array_class, style);
Decode ==
  /\ last.op = "none"
  /\ \E result_style \in ResultStyles, array_class \in ArrayClasses :
       LET r == ProcessAnnotationValue(buf, 1, array_class, result_style)
       IN last' = [op |-> "Decode", style |-> result_style, klass |-> array_class,
                   ret |-> r.ret, ptr |-> r.ptr, value |-> r.value, exc |-> r.exc,
                   calls |-> r.calls]
  /\ UNCHANGED <<buf, wellFormed, annotation_set, targetSdk, found, visit, callback, history,
               callers>>

\* the caller drops the result; the value can be processed again
Return ==
  /\ last.op # "none"
  /\ last' = NoCall
  /\ UNCHANGED <<buf, wellFormed, annotation_set, targetSdk, found, visit, callback, history,
               callers>>

Next == Skip \/ Decode \/ Return

Spec == CodecInit /\ [][Next]_vars

(***************************************************************************)
(* Annotation Search and Element Extractor.                                *)
(***************************************************************************)
MaxItems == 3      \* most AnnotationItems in an annotation set built
MaxElements == 3   \* most elements in an annotation body that is searched

\* SdkVersion::kM
kM == 23
\* IsSdkVersionSetAndAtMost(lhs, rhs); 0 is the unset version
IsSdkVersionSetAndAtMost(lhs, rhs) == lhs # 0 /\ lhs <= rhs

\* a wrong variant: the target SDK is not looked at
IsVisibilityCompatible_NoSdkCheck(actual, expected, target_sdk) ==
  IF expected = kDexVisibilityRuntime
    THEN actual = kDexVisibilityRuntime \/ actual = kDexVisibilityBuild
    ELSE actual = expected

IsVisibilityCompatible(actual, expected, target_sdk) ==
  IF expected = kDexVisibilityRuntime /\ IsSdkVersionSetAndAtMost(target_sdk, kM)
    THEN actual = kDexVisibilityRuntime \/ actual = kDexVisibilityBuild
    ELSE actual = expected

\* a wrong variant: the loop does not stop at the first match
RECURSIVE SearchAnnotationSetFrom_NoBreak(_, _, _, _, _)
SearchAnnotationSetFrom_NoBreak(set, i, descriptor, visibility, target_sdk) ==
  IF i > Len(set) THEN NullItem
  ELSE LET rest == SearchAnnotationSetFrom_NoBreak(set, i + 1, descriptor, visibility,
                                                   target_sdk)
           type_index == DecodeUnsignedLeb128(set[i].annotation_, 1)
       IN IF rest # NullItem THEN rest
          ELSE IF /\ IsVisibilityCompatible(set[i].visibility_, visibility, target_sdk)
                  /\ descriptor = TypeDescriptor[type_index.val]
            THEN i
          ELSE NullItem

\* the loop of SearchAnnotationSet from item i on
RECURSIVE SearchAnnotationSetFrom(_, _, _, _, _)
SearchAnnotationSetFrom(set, i, descriptor, visibility, target_sdk) ==
  IF i > Len(set) THEN NullItem
  ELSE IF ~IsVisibilityCompatible(set[i].visibility_, visibility, target_sdk)
    THEN SearchAnnotationSetFrom(set, i + 1, descriptor, visibility, target_sdk)
  ELSE LET type_index == DecodeUnsignedLeb128(set[i].annotation_, 1)
       IN IF descriptor = TypeDescriptor[type_index.val]
            THEN i
            ELSE SearchAnnotationSetFrom(set, i + 1, descriptor, visibility, target_sdk)

SearchAnnotationSet(set, descriptor, visibility, target_sdk) ==
  SearchAnnotationSetFrom(set, 1, descriptor, visibility, target_sdk)

\* the loop of GetAnnotationItemFromAnnotationSet from item i on; calls counts
\* the ResolveType calls, and the exception of a failed one is cleared
RECURSIVE GetAnnotationItemFrom(_, _, _, _, _)
GetAnnotationItemFrom(set, i, visibility, annotation_class, target_sdk) ==
  IF i > Len(set) THEN [item |-> NullItem, exc |-> FALSE, calls |-> 0]
  ELSE IF ~IsVisibilityCompatible(set[i].visibility_, visibility, target_sdk)
    THEN GetAnnotationItemFrom(set, i + 1, visibility, annotation_class, target_sdk)
  ELSE LET type_index == DecodeUnsignedLeb128(set[i].annotation_, 1)
           rest == GetAnnotationItemFrom(set, i + 1, visibility, annotation_class,
                                         target_sdk)
       IN IF type_index.val \notin ResolvableTypes
            THEN \* CHECK(self->IsExceptionPending()); ClearException(); continue
                 [rest EXCEPT !.calls = @ + 1, !.exc = @ \/ ClearException(TRUE)]
          ELSE IF [cls |-> "Class", type_idx |-> type_index.val] = annotation_class
            THEN [item |-> i, exc |-> FALSE, calls |-> 1]
          ELSE [rest EXCEPT !.calls = @ + 1]

GetAnnotationItemFromAnnotationSet(set, visibility, annotation_class, target_sdk) ==
  GetAnnotationItemFrom(set, 1, visibility, annotation_class, target_sdk)

\* a wrong variant: the cursor returned is the one before the name index was read
RECURSIVE SearchEncodedAnnotationLoop_BeforeName(_, _, _, _)
SearchEncodedAnnotationLoop_BeforeName(data, annotation, size, name) ==
  IF size = 0 THEN [fatal |-> FALSE, ptr |-> NullPtr]
  ELSE LET element_name_index == DecodeUnsignedLeb128(data, annotation)
           skipped == SkipAnnotationValue(data, element_name_index.ptr)
       IN IF name = StringData[element_name_index.val]
            THEN [fatal |-> FALSE, ptr |-> annotation]
          ELSE IF skipped.ret = "fatal" THEN [fatal |-> TRUE, ptr |-> NullPtr]
          ELSE SearchEncodedAnnotationLoop_BeforeName(data, skipped.ptr, size - 1, name)

\* a wrong variant: the last element is not looked at
RECURSIVE SearchEncodedAnnotationLoop_StopsEarly(_, _, _, _)
SearchEncodedAnnotationLoop_StopsEarly(data, annotation, size, name) ==
  IF size <= 1 THEN [fatal |-> FALSE, ptr |-> NullPtr]
  ELSE LET element_name_index == DecodeUnsignedLeb128(data, annotation)
           skipped == SkipAnnotationValue(data, element_name_index.ptr)
       IN IF name = StringData[element_name_index.val]
            THEN [fatal |-> FALSE, ptr |-> element_name_index.ptr]
          ELSE IF skipped.ret = "fatal" THEN [fatal |-> TRUE, ptr |-> NullPtr]
          ELSE SearchEncodedAnnotationLoop_StopsEarly(data, skipped.ptr, size - 1, name)

\* while (size != 0) { ... } of SearchEncodedAnnotation
RECURSIVE SearchEncodedAnnotationLoop(_, _, _, _)
SearchEncodedAnnotationLoop(data, annotation, size, name) ==
  IF size = 0 THEN [fatal |-> FALSE, ptr |-> NullPtr]
  ELSE LET element_name_index == DecodeUnsignedLeb128(data, annotation)
           skipped == SkipAnnotationValue(data, element_name_index.ptr)
       IN IF name = StringData[element_name_index.val]
            THEN [fatal |-> FALSE, ptr |-> element_name_index.ptr]
          ELSE IF skipped.ret = "fatal" THEN [fatal |-> TRUE, ptr |-> NullPtr]
          ELSE SearchEncodedAnnotationLoop(data, skipped.ptr, size - 1, name)

SearchEncodedAnnotation(data, annotation, name) ==
  LET type_index == DecodeUnsignedLeb128(data, annotation)
      size == DecodeUnsignedLeb128(data, type_index.ptr)
  IN SearchEncodedAnnotationLoop(data, size.ptr, size.val, name)

(***************************************************************************)
(* Annotation sets the searches are run on.                                *)
(***************************************************************************)
RECURSIVE SeqsUpTo(_, _)
SeqsUpTo(S, n) ==
  IF n = 0 THEN {<<>>}
  ELSE LET shorter == SeqsUpTo(S, n - 1)
       IN shorter \cup { Append(q, x) : <<q, x>> \in { t \in shorter \X S : Len(t[1]) = n - 1 } }

EncodedPairs(type_index, pairs) ==
  Uleb128(type_index) \o Uleb128(Len(pairs))
    \o Flatten([i \in 1 .. Len(pairs) |-> Uleb128(pairs[i][1]) \o pairs[i][2]])

Visibilities == {kDexVisibilityBuild, kDexVisibilityRuntime, kDexVisibilitySystem}
TargetSdkVersions == {0, 22, 23, 24}

\* items that differ in visibility and type, with an empty body
PlainItems ==
  { [visibility_ |-> v, annotation_ |-> EncodedPairs(t, <<>>)] :
      <<v, t>> \in Visibilities \X {0, 2} }
SearchedSets == SeqsUpTo(PlainItems, MaxItems)

\* one Runtime item whose body holds up to MaxElements named values
SearchedNames == {0, 1}
SearchedValues ==
  { <<HeaderByte(kDexAnnotationInt, 1), 52, 18>>,
    EncodedArray(<<<<HeaderByte(kDexAnnotationByte, 0), 7>>,
                   <<HeaderByte(kDexAnnotationBoolean, 1)>>>>),
    <<HeaderByte(kDexAnnotationNull, 0)>> }
SearchedBodies ==
  { <<[visibility_ |-> kDexVisibilityRuntime, annotation_ |-> EncodedPairs(1, pairs)]>> :
      pairs \in SeqsUpTo(SearchedNames \X SearchedValues, MaxElements) }

SearchInit ==
  /\ \/ annotation_set \in SearchedSets /\ targetSdk \in TargetSdkVersions
     \/ annotation_set \in SearchedBodies /\ targetSdk = 0
  /\ found = NoSearch
  /\ buf = <<>>
  /\ wellFormed = TRUE
  /\ last = NoCall
  /\ visit = NoVisit /\ callback = NoCallback /\ history = NoHistory
  /\ callers = NoCallers

RequestedDescriptors == {"LA;", "LB;", "LMissing;"}
RequestedNames == {"a", "b", "value"}
RequestedClasses ==
  { [cls |-> "Class", type_idx |-> 0], [cls |-> "Class", type_idx |-> 1] }

\* SearchAnnotationSet(dex_file, annotation_set, descriptor, visibility)
SearchSet ==
  /\ found.op = "none"
  /\ \E descriptor \in RequestedDescriptors, visibility \in Visibilities :
       found' = [op |-> "SearchAnnotationSet", key |-> descriptor,
                 visibility |-> visibility,
                 item |-> SearchAnnotationSet(annotation_set, descriptor, visibility,
                                              targetSdk)]
  /\ UNCHANGED <<buf, wellFormed, last, annotation_set, targetSdk, visit, callback, history,
               callers>>

\* GetAnnotationItemFromAnnotationSet(klass, annotation_set, visibility, annotation_class)
GetItem ==
  /\ found.op = "none"
  /\ \E annotation_class \in RequestedClasses, visibility \in Visibilities :
       LET r == GetAnnotationItemFromAnnotationSet(annotation_set, visibility,
                                                   annotation_class, targetSdk)
       IN found' = [op |-> "GetAnnotationItemFromAnnotationSet",
                    klass |-> annotation_class, visibility |-> visibility,
                    item |-> r.item, exc |-> r.exc, calls |-> r.calls]
  /\ UNCHANGED <<buf, wellFormed, last, annotation_set, targetSdk, visit, callback, history,
               callers>>

\* SearchEncodedAnnotation(dex_file, annotation_item->annotation_, name)
SearchElement ==
  /\ found.op = "none"
  /\ \E i \in DOMAIN annotation_set, name \in RequestedNames :
       LET r == SearchEncodedAnnotation(annotation_set[i].annotation_, 1, name)
       IN found' = [op |-> "SearchEncodedAnnotation", item |-> i, key |-> name,
                    ptr |-> r.ptr, fatal |-> r.fatal]
  /\ UNCHANGED <<buf, wellFormed, last, annotation_set, targetSdk, visit, callback, history,
               callers>>

\* the caller drops the result; the set can be searched again
ReturnSearch ==
  /\ found.op # "none"
  /\ found' = NoSearch
  /\ UNCHANGED <<buf, wellFormed, last, annotation_set, targetSdk, visit, callback, history,
               callers>>

SearchNext == SearchSet \/ GetItem \/ SearchElement \/ ReturnSearch

SearchSpec == SearchInit /\ [][SearchNext]_vars

(***************************************************************************)
(* ProcessAnnotationSet: every record of one visibility is materialized.   *)
(***************************************************************************)
\* a wrong variant: the legacy-aware test of the searches is used
VisibilityDiffers_Compatible(item_visibility, visibility, target_sdk) ==
  ~IsVisibilityCompatible(item_visibility, visibility, target_sdk)

\* lines 946-948: if (annotation_item->visibility_ != visibility) continue;
VisibilityDiffers(item_visibility, visibility, target_sdk) ==
  item_visibility # visibility

\* the loop of ProcessAnnotationSet from item i on; result holds the
\* annotations stored so far, so that dest_index = Len(result)
RECURSIVE ProcessAnnotationSetFrom(_, _, _, _, _)
RECURSIVE ProcessAnnotationSetStore(_, _, _, _, _, _)
ProcessAnnotationSetFrom(set, i, visibility, target_sdk, result) ==
  IF i > Len(set)
    THEN \* result, or trimmed_result with the first dest_index entries
         [ret |-> "array", objects |-> result, exc |-> FALSE]
  ELSE IF VisibilityDiffers(set[i].visibility_, visibility, target_sdk)
    THEN ProcessAnnotationSetFrom(set, i + 1, visibility, target_sdk, result)
  ELSE ProcessAnnotationSetStore(set, i, visibility, target_sdk, result,
                                 ProcessEncodedAnnotation(set[i].annotation_, 1))

\* lines 950-958: what follows annotation_obj = ProcessEncodedAnnotation(...)
ProcessAnnotationSetStore(set, i, visibility, target_sdk, result, annotation_obj) ==
  IF annotation_obj.ret = "fatal"
    THEN [ret |-> "fatal", objects |-> <<>>, exc |-> FALSE]
  ELSE IF annotation_obj.obj # NullObject
    THEN ProcessAnnotationSetFrom(set, i + 1, visibility, target_sdk,
                                  Append(result, annotation_obj.obj))
  ELSE IF annotation_obj.exc
    THEN [ret |-> "nullptr", objects |-> <<>>, exc |-> TRUE]
  ELSE ProcessAnnotationSetFrom(set, i + 1, visibility, target_sdk, result)

\* lines 920-975; no_set is annotation_set == nullptr
ProcessAnnotationSet(set, no_set, visibility, target_sdk) ==
  IF no_set THEN [ret |-> "array", objects |-> <<>>, exc |-> FALSE]
  ELSE ProcessAnnotationSetFrom(set, 1, visibility, target_sdk, <<>>)

\* annotation bodies: one that materializes, one that materializes with a
\* member naming a type that cannot be resolved, one of a type that cannot
\* be resolved, one whose member names a string that cannot be resolved
MaterializedBody ==
  EncodedPairs(0, <<<<0, EncodedArray(<<<<HeaderByte(kDexAnnotationInt, 0), 7>>>>)>>>>)
PlaceholderBody == EncodedPairs(1, <<<<0, <<HeaderByte(kDexAnnotationType, 0), 2>>>>>>)
UnresolvableTypeBody == EncodedPairs(2, <<>>)
UnresolvableStringBody ==
  EncodedPairs(0, <<<<1, EncodedArray(<<<<HeaderByte(kDexAnnotationString, 0), 200>>>>)>>>>)
ExtractedBodies ==
  { MaterializedBody, PlaceholderBody, UnresolvableTypeBody, UnresolvableStringBody }
ExtractedItems ==
  { [visibility_ |-> v, annotation_ |-> b] :
      <<v, b>> \in {kDexVisibilityBuild, kDexVisibilityRuntime} \X ExtractedBodies }
ExtractedSets == SeqsUpTo(ExtractedItems, MaxItems)

ExtractInit ==
  /\ annotation_set \in ExtractedSets
  /\ targetSdk \in {0, 23}
  /\ buf = <<>>
  /\ wellFormed = TRUE
  /\ last = NoCall
  /\ found = NoSearch
  /\ visit = NoVisit /\ callback = NoCallback /\ history = NoHistory
  /\ callers = NoCallers

\* ProcessAnnotationSet(klass, annotation_set, visibility); a null set only
\* where there are no records
ProcessSet ==
  /\ found.op = "none"
  /\ \E visibility \in Visibilities, no_set \in BOOLEAN :
       /\ no_set => annotation_set = <<>>
       /\ LET r == ProcessAnnotationSet(annotation_set, no_set, visibility, targetSdk)
          IN found' = [op |-> "ProcessAnnotationSet", visibility |-> visibility,
                       no_set |-> no_set, ret |-> r.ret, objects |-> r.objects,
                       exc |-> r.exc]
  /\ UNCHANGED <<buf, wellFormed, last, annotation_set, targetSdk, visit, callback, history,
               callers>>

ExtractNext == GetItem \/ ProcessSet \/ ReturnSearch

ExtractSpec == ExtractInit /\ [][ExtractNext]_vars

(***************************************************************************)
(* GetAnnotationValue: one named element of a record is materialized and   *)
(* handed out if it is of the kind the caller expects.                     *)
(*   ret     "returned" or "fatal"                                         *)
(*   obj     the object returned; NullObject is nullptr                    *)
(*   result  what ProcessAnnotationValue returned, if it was called        *)
(*   exc     whether an exception is pending on the thread at return       *)
(***************************************************************************)
\* a wrong variant: the kind is not compared
KindDiffers_NotCompared(type_, expected_type) == FALSE

\* line 835: annotation_value.type_ != expected_type
KindDiffers(type_, expected_type) == type_ # expected_type

\* lines 832-838: what follows the call of ProcessAnnotationValue, r
GetAnnotationValueResult(r, expected_type) ==
  IF r.ret = "fatal"
    THEN [ret |-> "fatal", obj |-> NullObject, result |-> "fatal", exc |-> FALSE]
  ELSE [ret |-> "returned",
        obj |-> IF r.ret # "true" THEN NullObject
                ELSE IF KindDiffers(r.value.type_, expected_type) THEN NullObject
                ELSE GetL(r.value.value_),
        result |-> r.ret, exc |-> r.exc]

\* lines 817-831: what follows the call of SearchEncodedAnnotation, annotation
GetAnnotationValueAt(data, annotation, array_class, expected_type) ==
  IF annotation.fatal
    THEN [ret |-> "fatal", obj |-> NullObject, result |-> "none", exc |-> FALSE]
  ELSE IF annotation.ptr = NullPtr
    THEN [ret |-> "returned", obj |-> NullObject, result |-> "none", exc |-> FALSE]
  ELSE GetAnnotationValueResult(
         ProcessAnnotationValue(data, annotation.ptr, array_class, kAllObjects),
         expected_type)

GetAnnotationValue(data, annotation_name, array_class, expected_type) ==
  GetAnnotationValueAt(data, SearchEncodedAnnotation(data, 1, annotation_name), array_class,
                       expected_type)

\* element values: ones that materialize (a Type that cannot be resolved
\* included, null included), a String that cannot be resolved, an array
ExtractedValues ==
  { <<HeaderByte(kDexAnnotationInt, 0), 7>>,
    <<HeaderByte(kDexAnnotationString, 0), 1>>,
    <<HeaderByte(kDexAnnotationString, 0), 200>>,
    <<HeaderByte(kDexAnnotationType, 0), 2>>,
    <<HeaderByte(kDexAnnotationNull, 0)>>,
    EncodedArray(<<<<HeaderByte(kDexAnnotationInt, 0), 7>>>>) }
ExtractedRecords ==
  { <<[visibility_ |-> kDexVisibilityRuntime, annotation_ |-> EncodedPairs(0, pairs)]>> :
      pairs \in SeqsUpTo(SearchedNames \X ExtractedValues, MaxArraySize) }
ExpectedTypes ==
  { kDexAnnotationInt, kDexAnnotationString, kDexAnnotationType, kDexAnnotationNull,
    kDexAnnotationArray }
ExtractedArrayClasses == { NullClass, ArrayClassOf("I", 1) }

ValueInit ==
  /\ annotation_set \in ExtractedRecords
  /\ targetSdk = 0
  /\ buf = <<>>
  /\ wellFormed = TRUE
  /\ last = NoCall
  /\ found = NoSearch
  /\ visit = NoVisit /\ callback = NoCallback /\ history = NoHistory
  /\ callers = NoCallers

\* GetAnnotationValue(klass, annotation_item, annotation_name, array_class, expected_type)
GetValue ==
  /\ found.op = "none"
  /\ \E i \in DOMAIN annotation_set, name \in RequestedNames,
        array_class \in ExtractedArrayClasses, expected_type \in ExpectedTypes :
       found' = [op |-> "GetAnnotationValue", item |-> i, key |-> name,
                 klass |-> array_class, expected_type |-> expected_type]
                @@ GetAnnotationValue(annotation_set[i].annotation_, name, array_class,
                                      expected_type)
  /\ UNCHANGED <<buf, wellFormed, last, annotation_set, targetSdk, visit, callback, history,
               callers>>

ValueNext == GetValue \/ ReturnSearch

ValueSpec == ValueInit /\ [][ValueNext]_vars

(***************************************************************************)
(* Structured Visitor: VisitClassAnnotations walks annotation_set and      *)
(* calls an AnnotationVisitor, whose answers are free.  One step of the    *)
(* model runs the code from one visitor call to just before the next one.  *)
(* visit holds the locals of VisitClassAnnotations (i, annotation, size)   *)
(* and one frame per VisitEncodedValue activation that is inside its array *)
(* loop; the innermost activation is the last frame.  start, the cursor    *)
(* the activation was entered with, is kept for the properties.            *)
(***************************************************************************)
MaxVisitElements == 2

\* uint8_t depth: the depth counter of VisitEncodedValue counts modulo this
DepthModulus == 256

kVisitBreak == "kVisitBreak"
kVisitNext == "kVisitNext"
kVisitInner == "kVisitInner"
VisitorStatus == {kVisitBreak, kVisitNext, kVisitInner}

\* a wrong variant: the depth is passed on as it is
VisitElement_FullDepth(element_name, depth, element_index, annotation_value, item, at, answer) ==
  [fn |-> IF depth = 0 THEN "VisitAnnotationElement" ELSE "VisitArrayElement",
   name |-> element_name, visibility |-> 0, depth |-> depth,
   index |-> IF depth = 0 THEN 0 ELSE element_index, type_ |-> annotation_value.type_,
   value_ |-> annotation_value.value_, item |-> item, at |-> at, answer |-> answer]

\* the visitor call VisitElement makes, with the arguments it passes; item and
\* at (record and cursor the value was read at) are kept for the properties
VisitElement(element_name, depth, element_index, annotation_value, item, at, answer) ==
  IF depth = 0
  THEN [fn |-> "VisitAnnotationElement", name |-> element_name, visibility |-> 0,
        depth |-> 0, index |-> 0, type_ |-> annotation_value.type_,
        value_ |-> annotation_value.value_, item |-> item, at |-> at, answer |-> answer]
  ELSE [fn |-> "VisitArrayElement", name |-> element_name, visibility |-> 0,
        depth |-> depth - 1, index |-> element_index, type_ |-> annotation_value.type_,
        value_ |-> annotation_value.value_, item |-> item, at |-> at, answer |-> answer]

\* the call VisitClassAnnotations makes for a record
VisitAnnotationCall(annotation_descriptor, visibility, item, answer) ==
  [fn |-> "VisitAnnotation", name |-> annotation_descriptor, visibility |-> visibility,
   depth |-> 0, index |-> 0, type_ |-> 0, value_ |-> UninitializedJValue,
   item |-> item, at |-> 1, answer |-> answer]

\* a wrong variant: the slots that were not visited are not skipped
VisitSkipSlots_None(data, annotation, n) == annotation

\* for (; i < array_size; ++i) SkipAnnotationValue(...): the cursor after n
\* values, NullPtr when a skip ended the process
RECURSIVE VisitSkipSlots(_, _, _)
VisitSkipSlots(data, annotation, n) ==
  IF n = 0 THEN annotation
  ELSE LET s == SkipAnnotationValue(data, annotation)
       IN IF s.ret = "fatal" THEN NullPtr ELSE VisitSkipSlots(data, s.ptr, n - 1)

\* for (; size != 0u; --size) { DecodeUnsignedLeb128; SkipAnnotationValue }
RECURSIVE VisitSkipElements(_, _, _)
VisitSkipElements(data, annotation, size) ==
  IF size = 0 THEN annotation
  ELSE LET name == DecodeUnsignedLeb128(data, annotation)
           s == SkipAnnotationValue(data, name.ptr)
       IN IF s.ret = "fatal" THEN NullPtr ELSE VisitSkipElements(data, s.ptr, size - 1)

\* a wrong variant: the slots of an array are never visited
ElementStatusOnEntry_NeverEnters(status) == kVisitBreak

\* the visitor's answer to an array decides whether its slots are visited
ElementStatusOnEntry(status) == IF status = kVisitInner THEN kVisitNext ELSE kVisitBreak

\* a wrong variant: the loop over the slots stops one slot early
ContinuesArrayLoop_OneShort(i, array_size, element_status) ==
  i + 1 < array_size /\ element_status # kVisitBreak

\* the condition of the loop over the slots of an array
ContinuesArrayLoop(i, array_size, element_status) ==
  i < array_size /\ element_status # kVisitBreak

\* a wrong variant: the loop over the elements goes on after kVisitBreak
BreaksElementLoop_Never(status) == FALSE

\* the test after VisitEncodedValue in the loop over the elements of a record
BreaksElementLoop(status) == status = kVisitBreak

\* a wrong variant: an array returns what its last visited slot answered
ArrayReturns_SlotStatus(status, element_status) == element_status

\* line 1981: return status; for an array too it is the visitor's answer to
\* the array itself, not element_status
ArrayReturns(status, element_status) == status

\* ++i of the loop over the records
NextAnnotationItem(v) ==
  [v EXCEPT !.pc = "annotations", !.i = @ + 1, !.annotation = NullPtr,
            !.size = 0, !.frames = <<>>]

Aborted(v) == [v EXCEPT !.pc = "aborted"]

\* VisitEncodedValue returns status with the cursor at annotation: to the loop
\* of the enclosing array when there is one, else to VisitClassAnnotations
ReturnFromValue(v, status, annotation) ==
  IF annotation = NullPtr THEN Aborted(v)
  ELSE IF v.frames = <<>>
  THEN IF BreaksElementLoop(status) \/ v.size - 1 = 0
       THEN NextAnnotationItem(v)
       ELSE [v EXCEPT !.annotation = annotation, !.size = @ - 1]
  ELSE LET top == Len(v.frames)
       IN [v EXCEPT !.annotation = annotation,
                    !.frames[top].element_status = status,
                    !.frames[top].i = @ + 1]

\* VisitEncodedValue from the visitor's answer on
VisitEncodedValueAfterCall(v, data, r, depth, element_name, status) ==
  LET ptr == v.annotation
  IN CASE r.value.type_ = kDexAnnotationArray ->
            LET array_size == DecodeUnsignedLeb128(data, ptr + 1)
                next_depth == (depth + 1) % DepthModulus
                element_status == ElementStatusOnEntry(status)
            IN IF ContinuesArrayLoop(0, array_size.val, element_status)
               THEN [v EXCEPT !.annotation = array_size.ptr,
                              !.frames = Append(@, [status |-> status,
                                                    element_status |-> element_status,
                                                    i |-> 0,
                                                    array_size |-> array_size.val,
                                                    next_depth |-> next_depth,
                                                    element_name |-> element_name,
                                                    start |-> ptr])]
               ELSE ReturnFromValue(v, ArrayReturns(status, element_status),
                                    VisitSkipSlots(data, array_size.ptr, array_size.val))
       [] r.value.type_ = kDexAnnotationAnnotation ->
            LET type_index == DecodeUnsignedLeb128(data, ptr + 1)
                size == DecodeUnsignedLeb128(data, type_index.ptr)
            IN ReturnFromValue(v, status, VisitSkipElements(data, size.ptr, size.val))
       [] OTHER ->
            \* DCHECK(is_consumed); without it SkipAnnotationValue runs
            IF r.ret = "true" THEN ReturnFromValue(v, status, r.ptr)
            ELSE LET s == SkipAnnotationValue(data, ptr)
                 IN IF s.ret = "fatal" THEN Aborted(v)
                    ELSE ReturnFromValue(v, status, s.ptr)

\* VisitEncodedValue once ProcessAnnotationValue has returned r: the visitor is
\* called and answers status
VisitEncodedValueWith(v, data, r, element_name, depth, element_index, status) ==
  [call |-> VisitElement(element_name, depth, element_index, r.value,
                         v.i, v.annotation, status),
   visit |-> IF r.ret = "fatal" THEN Aborted(v)
             ELSE VisitEncodedValueAfterCall(v, data, r, depth, element_name, status)]

\* VisitEncodedValue(klass, dex_file, &annotation, visitor, element_name, depth,
\* element_index) with the visitor answering status
VisitEncodedValue(v, data, element_name, depth, element_index, status) ==
  VisitEncodedValueWith(v, data,
                        ProcessAnnotationValue(data, v.annotation, NullClass, kAllRaw),
                        element_name, depth, element_index, status)

\* the visitor answered kVisitInner to a record or an array, and did not
\* answer kVisitBreak to anything else
GoesInward(call) ==
  IF call.fn = "VisitAnnotation" \/ call.type_ = kDexAnnotationArray
    THEN call.answer = kVisitInner
    ELSE call.answer # kVisitBreak

Record(call) ==
  /\ callback' = call
  /\ history' = [history EXCEPT !.count = @ + 1,
                                !.broke = @ \/ call.answer = kVisitBreak,
                                !.seen = Append(@, <<call.item, call.at>>),
                                !.inner = @ /\ GoesInward(call)]

\* the effect of one VisitEncodedValue on the walk
Visited(r) == Record(r.call) /\ visit' = r.visit

\* for (i = 0; i < size_; ++i): the record's header and the VisitAnnotation call
VisitAnnotationAnswering(status) ==
  /\ visit.pc = "annotations"
  /\ visit.i <= Len(annotation_set)
  /\ LET annotation_item == annotation_set[visit.i]
         data == annotation_item.annotation_
         type_index == DecodeUnsignedLeb128(data, 1)
         size == DecodeUnsignedLeb128(data, type_index.ptr)
     IN /\ Record(VisitAnnotationCall(TypeDescriptor[type_index.val],
                                      annotation_item.visibility_, visit.i, status))
        /\ visit' = CASE status = kVisitBreak -> [visit EXCEPT !.pc = "done"]
                      [] status = kVisitNext -> NextAnnotationItem(visit)
                      [] status = kVisitInner ->
                           IF size.val = 0 THEN NextAnnotationItem(visit)
                           ELSE [visit EXCEPT !.pc = "elements",
                                              !.annotation = size.ptr,
                                              !.size = size.val]
  /\ UNCHANGED <<buf, wellFormed, last, annotation_set, targetSdk, found, callers>>

VisitAnnotation == \E status \in VisitorStatus : VisitAnnotationAnswering(status)

\* the body of while (size != 0): an element of the record
VisitTopElementAnswering(status) ==
  /\ visit.pc = "elements"
  /\ visit.frames = <<>>
  /\ LET data == annotation_set[visit.i].annotation_
         element_name_index == DecodeUnsignedLeb128(data, visit.annotation)
     IN Visited(VisitEncodedValue([visit EXCEPT !.annotation = element_name_index.ptr],
                                  data, StringData[element_name_index.val], 0, 0,
                                  status))
  /\ UNCHANGED <<buf, wellFormed, last, annotation_set, targetSdk, found, callers>>

VisitTopElement == \E status \in VisitorStatus : VisitTopElementAnswering(status)

\* the body of the first loop over an array: the slot the cursor is at
VisitArraySlotAnswering(status) ==
  /\ visit.pc = "elements"
  /\ visit.frames # <<>>
  /\ LET frame == visit.frames[Len(visit.frames)]
     IN /\ ContinuesArrayLoop(frame.i, frame.array_size, frame.element_status)
        /\ Visited(VisitEncodedValue(visit, annotation_set[visit.i].annotation_,
                                     frame.element_name, frame.next_depth, frame.i,
                                     status))
  /\ UNCHANGED <<buf, wellFormed, last, annotation_set, targetSdk, found, callers>>

VisitArraySlot == \E status \in VisitorStatus : VisitArraySlotAnswering(status)

\* the first loop over an array ends: the second loop skips what is left and
\* VisitEncodedValue returns the visitor's answer to the array itself
LeaveArray ==
  /\ visit.pc = "elements"
  /\ visit.frames # <<>>
  /\ LET top == Len(visit.frames)
         frame == visit.frames[top]
     IN /\ ~ContinuesArrayLoop(frame.i, frame.array_size, frame.element_status)
        /\ visit' = ReturnFromValue([visit EXCEPT !.frames = SubSeq(@, 1, top - 1)],
                                    ArrayReturns(frame.status, frame.element_status),
                                    VisitSkipSlots(annotation_set[visit.i].annotation_,
                                                   visit.annotation,
                                                   frame.array_size - frame.i))
  /\ UNCHANGED <<buf, wellFormed, last, annotation_set, targetSdk, found, callback, history,
               callers>>

\* i == size_: VisitClassAnnotations returns
EndOfSet ==
  /\ visit.pc = "annotations"
  /\ visit.i > Len(annotation_set)
  /\ visit' = [visit EXCEPT !.pc = "done"]
  /\ UNCHANGED <<buf, wellFormed, last, annotation_set, targetSdk, found, callback, history,
               callers>>

\* the values the visited records hold
VisitedInt == <<HeaderByte(kDexAnnotationInt, 1), 52, 18>>
VisitedByte == <<HeaderByte(kDexAnnotationByte, 0), 7>>
VisitedValues ==
  { VisitedInt,
    <<HeaderByte(kDexAnnotationString, 0), 200>>,
    EncodedArray(<<>>),
    EncodedArray(<<VisitedInt, VisitedByte>>),
    EncodedArray(<<EncodedArray(<<VisitedByte, VisitedInt>>), VisitedInt>>),
    EncodedAnnotation(0, <<VisitedInt>>) }
VisitedBodies ==
  { EncodedPairs(0, [k \in DOMAIN values |-> <<k - 1, values[k]>>]) :
      values \in SeqsUpTo(VisitedValues, MaxVisitElements) }
FollowingBodies == { EncodedPairs(1, <<>>), EncodedPairs(1, <<<<2, VisitedInt>>>>) }
VisitedItem(body) == [visibility_ |-> kDexVisibilityRuntime, annotation_ |-> body]
VisitedSets ==
  {<<>>} \cup { <<VisitedItem(b)>> : b \in VisitedBodies }
         \cup { <<VisitedItem(b), VisitedItem(c)>> :
                  <<b, c>> \in VisitedBodies \X FollowingBodies }
\* records holding a value of no defined kind
MalformedSets ==
  { <<VisitedItem(EncodedPairs(0, <<<<0, v>>, <<1, VisitedInt>>>>))>> :
      v \in { <<HeaderByte(1, 0), 7>>,
              EncodedArray(<<VisitedInt, <<HeaderByte(21, 0), 7>>>>) } }

VisitInit ==
  /\ \/ annotation_set \in VisitedSets /\ wellFormed = TRUE
     \/ annotation_set \in MalformedSets /\ wellFormed = FALSE
  /\ targetSdk = 0
  /\ visit = [NoVisit EXCEPT !.pc = "annotations"]
  /\ callback = NoCallback
  /\ history = NoHistory
  /\ callers = NoCallers
  /\ found = NoSearch
  /\ buf = <<>>
  /\ last = NoCall

\* a value inside n arrays of one slot each: n times the header byte of an
\* array and the size 1, then the value
NestedArrays(n, value) ==
  [k \in 1 .. 2 * n |-> IF k % 2 = 1 THEN HeaderByte(kDexAnnotationArray, 0) ELSE 1]
    \o value

\* a record whose one element is nested as deep as the depth counter counts,
\* and one level less deep
DeeplyNestedSets ==
  { <<VisitedItem(EncodedPairs(0, <<<<0, NestedArrays(n, VisitedByte)>>>>))>> :
      n \in {DepthModulus - 1, DepthModulus} }

DeepVisitInit ==
  /\ annotation_set \in DeeplyNestedSets
  /\ wellFormed = TRUE
  /\ targetSdk = 0
  /\ visit = [NoVisit EXCEPT !.pc = "annotations"]
  /\ callback = NoCallback
  /\ history = NoHistory
  /\ callers = NoCallers
  /\ found = NoSearch
  /\ buf = <<>>
  /\ last = NoCall

VisitNext == VisitAnnotation \/ VisitTopElement \/ VisitArraySlot \/ LeaveArray \/ EndOfSet

VisitSpec == VisitInit /\ [][VisitNext]_vars

\* the walks of a visitor that enters every record and every array
DeepVisitNext ==
  \/ VisitAnnotationAnswering(kVisitInner)
  \/ VisitTopElementAnswering(kVisitInner)
  \/ VisitArraySlotAnswering(kVisitInner)
  \/ LeaveArray
  \/ EndOfSet

DeepVisitSpec == DeepVisitInit /\ [][DeepVisitNext]_vars

(***************************************************************************)
(* Concurrent callers.  Several threads call SkipAnnotationValue,          *)
(* SearchEncodedAnnotation, SearchAnnotationSet and ProcessAnnotationValue *)
(* (kAllRaw) over the same annotation_set.  A step of a caller is one      *)
(* iteration of a loop of its innermost activation, or the return of that  *)
(* activation; the steps of different callers interleave freely.  frames   *)
(* holds, per activation, its loop (fn), its local cursor (annotation) and *)
(* its local counter (size); the first frame is the caller's own cursor.   *)
(* The byte-level calls run on the body of the first record.               *)
(***************************************************************************)
Callers == 1 .. NumCallers

\* a wrong variant: every caller's locals live where those of caller 1 do
LocalsOf_Shared(t) == 1

\* line 210 (and 271-272, 188-193, 424-428): const uint8_t* annotation =
\* *annotation_ptr; the cursor and the counters are locals of the activation
LocalsOf(t) == t

Frame(fn, annotation, size) == [fn |-> fn, annotation |-> annotation, size |-> size]

Done(run, ret, ptr, item, value) ==
  [run EXCEPT !.pc = "done", !.frames = <<>>, !.ret = ret, !.ptr = ptr, !.item = item,
              !.value = value]

\* the locals of a call when its first statement is reached
EnterCall(call, set) ==
  CASE call.op = "SkipAnnotationValue" ->
         [NoRun EXCEPT !.pc = "run", !.frames = <<Frame("caller", call.start, 1)>>]
    [] call.op = "SearchEncodedAnnotation" ->
         \* DecodeUnsignedLeb128(&annotation); size = DecodeUnsignedLeb128(&annotation)
         LET type_index == DecodeUnsignedLeb128(set[1].annotation_, 1)
             size == DecodeUnsignedLeb128(set[1].annotation_, type_index.ptr)
         IN [NoRun EXCEPT !.pc = "run",
                          !.frames = <<Frame("SearchEncodedAnnotation", size.ptr, size.val)>>]
    [] call.op = "SearchAnnotationSet" -> [NoRun EXCEPT !.pc = "run", !.i = 1]
    [] call.op = "ProcessAnnotationValue" -> [NoRun EXCEPT !.pc = "run", !.ptr = call.start]

\* a wrong variant: an activation whose loop is over does not return
ReturnTrue_Stuck(run, annotation) == run

\* the innermost activation returns true with its cursor at annotation: the
\* cursor is written back through annotation_ptr and the loop of the caller
\* goes on
ReturnTrue(run, annotation) ==
  LET depth == Len(run.frames)
  IN IF depth = 1
       THEN IF run.frames[1].fn = "caller"
              THEN Done(run, "true", annotation, 0, NoAnnotationValue)
              ELSE \* while (size != 0) is over: return nullptr
                   Done(run, "true", NullPtr, 0, NoAnnotationValue)
       ELSE [run EXCEPT !.frames =
               [SubSeq(run.frames, 1, depth - 1)
                  EXCEPT ![depth - 1].annotation = annotation, ![depth - 1].size = @ - 1]]

\* one iteration of the loop of the innermost activation of
\* SkipAnnotationValue or SearchEncodedAnnotation
StepFrames(run, call, data) ==
  LET depth == Len(run.frames)
      top == run.frames[depth]
      named == top.fn \in {"SkipAnnotation", "SearchEncodedAnnotation"}
      element_name_index == DecodeUnsignedLeb128(data, top.annotation)
      annotation_ptr == IF named THEN element_name_index.ptr ELSE top.annotation
      header_byte == data[annotation_ptr]
      annotation == annotation_ptr + 1
      value_type == ValueType(header_byte)
      width == ValueArg(header_byte) + 1
      size == DecodeUnsignedLeb128(data, annotation)
      inner_size == DecodeUnsignedLeb128(data, size.ptr)
      Advance(to) ==
        [run EXCEPT !.frames[depth].annotation = to, !.frames[depth].size = @ - 1]
      Call(fn, at, n) ==
        [run EXCEPT !.frames = Append([@ EXCEPT ![depth].annotation = annotation_ptr],
                                      Frame(fn, at, n))]
  IN IF top.size = 0 THEN ReturnTrue(run, top.annotation)
     ELSE IF top.fn = "SearchEncodedAnnotation"
             /\ call.key = StringData[element_name_index.val]
       THEN Done(run, "true", annotation_ptr, 0, NoAnnotationValue)
     ELSE CASE value_type \in SkipWidthKinds -> Advance(annotation + width)
            [] value_type \in {kDexAnnotationBoolean, kDexAnnotationNull} ->
                 Advance(annotation)
            [] value_type = kDexAnnotationArray -> Call("SkipArray", size.ptr, size.val)
            [] value_type = kDexAnnotationAnnotation ->
                 Call("SkipAnnotation", inner_size.ptr, inner_size.val)
            [] OTHER -> [run EXCEPT !.pc = "aborted"]

\* one iteration of the loop of SearchAnnotationSet
StepSearchAnnotationSet(run, call, set, target_sdk) ==
  IF run.i > Len(set) THEN Done(run, "true", 1, NullItem, NoAnnotationValue)
  ELSE IF ~IsVisibilityCompatible(set[run.i].visibility_, call.visibility, target_sdk)
    THEN [run EXCEPT !.i = @ + 1]
  ELSE IF call.key = TypeDescriptor[DecodeUnsignedLeb128(set[run.i].annotation_, 1).val]
    THEN Done(run, "true", 1, run.i, NoAnnotationValue)
  ELSE [run EXCEPT !.i = @ + 1]

\* ProcessAnnotationValue under kAllRaw: the header byte is read and type_
\* written, then the payload is read
StepProcessAnnotationValue(run, r) ==
  IF run.value = NoAnnotationValue
    THEN [run EXCEPT !.value = [type_ |-> r.value.type_, value_ |-> UninitializedJValue]]
    ELSE Done(run, r.ret, r.ptr, 0, r.value)

\* the bodies and sets the callers share
SharedBodies ==
  { EncodedPairs(0, <<<<0, VisitedInt>>,
                      <<1, EncodedArray(<<VisitedByte,
                                          EncodedArray(<<<<HeaderByte(kDexAnnotationBoolean, 1)>>>>)>>)>>,
                      <<2, EncodedAnnotation(1, <<VisitedInt>>)>>>>),
    EncodedPairs(1, <<<<1, EncodedArray(<<>>)>>, <<0, <<HeaderByte(kDexAnnotationNull, 0)>>>>>>) }
SharedSets ==
  { <<[visibility_ |-> kDexVisibilityRuntime, annotation_ |-> b]>> : b \in SharedBodies }
    \cup { <<[visibility_ |-> kDexVisibilityBuild, annotation_ |-> b],
             [visibility_ |-> kDexVisibilityRuntime, annotation_ |-> c]>> :
             <<b, c>> \in { t \in SharedBodies \X SharedBodies : t[1] # t[2] } }

\* where the values of the named elements of a body start
ValueStarts(data) ==
  { SearchEncodedAnnotation(data, 1, name).ptr : name \in RequestedNames } \ {NullPtr}

\* the calls a caller can make
CallArguments(set) ==
  { [op |-> op, key |-> "", visibility |-> 0, start |-> at] :
      <<op, at>> \in {"SkipAnnotationValue", "ProcessAnnotationValue"}
                       \X ValueStarts(set[1].annotation_) }
    \cup { [op |-> "SearchEncodedAnnotation", key |-> name, visibility |-> 0, start |-> 1] :
             name \in {"b", "value"} }
    \cup { [op |-> "SearchAnnotationSet", key |-> d, visibility |-> kDexVisibilityRuntime,
             start |-> 1] : d \in {"LB;", "LMissing;"} }

ConcurrentInit ==
  /\ annotation_set \in SharedSets
  /\ targetSdk \in {0, 23}
  /\ callers = NoCallers
  /\ buf = <<>>
  /\ wellFormed = TRUE
  /\ last = NoCall
  /\ found = NoSearch
  /\ visit = NoVisit /\ callback = NoCallback /\ history = NoHistory

\* caller t makes a call
CallerEnters(t) ==
  /\ callers[t].call.op = "none"
  /\ \E call \in CallArguments(annotation_set) :
       callers' = [callers EXCEPT ![t].call = call,
                                  ![LocalsOf(t)].run = EnterCall(call, annotation_set)]
  /\ UNCHANGED <<buf, wellFormed, last, annotation_set, targetSdk, found, visit, callback,
                 history>>

\* the call of caller t makes a step
CallerSteps(t) ==
  /\ callers[t].call.op # "none"
  /\ callers[LocalsOf(t)].run.pc = "run"
  /\ LET call == callers[t].call
         run == callers[LocalsOf(t)].run
         data == annotation_set[1].annotation_
     IN callers' =
          [callers EXCEPT ![LocalsOf(t)].run =
             CASE call.op = "SearchAnnotationSet" ->
                    StepSearchAnnotationSet(run, call, annotation_set, targetSdk)
               [] call.op = "ProcessAnnotationValue" ->
                    StepProcessAnnotationValue(
                      run, ProcessAnnotationValue(data, run.ptr, NullClass, kAllRaw))
               [] OTHER -> StepFrames(run, call, data)]
  /\ UNCHANGED <<buf, wellFormed, last, annotation_set, targetSdk, found, visit, callback,
                 history>>

ConcurrentNext == \E t \in Callers : CallerEnters(t) \/ CallerSteps(t)

ConcurrentSpec == ConcurrentInit /\ [][ConcurrentNext]_vars

(***************************************************************************)
(* Runs to completion.  A run is either one walk of VisitClassAnnotations  *)
(* over one of the shared sets, the visitor answering as it likes, or one  *)
(* call made by caller 1 over it.  The thread that runs the code keeps     *)
(* running it: a walk that can make a step makes one, and so does a call   *)
(* that was entered.                                                       *)
(***************************************************************************)
TerminationInit ==
  /\ annotation_set \in SharedSets
  /\ targetSdk \in {0, 23}
  /\ visit \in {NoVisit, [NoVisit EXCEPT !.pc = "annotations"]}
  /\ callback = NoCallback /\ history = NoHistory
  /\ callers = NoCallers
  /\ buf = <<>>
  /\ wellFormed = TRUE
  /\ last = NoCall
  /\ found = NoSearch

\* the walk makes a step
WalkSteps == visit.pc # "idle" /\ VisitNext

\* no walk is made; caller 1 makes its call
CallEnters == visit.pc = "idle" /\ CallerEnters(1)

\* the call of caller 1 makes a step
CallSteps == visit.pc = "idle" /\ CallerSteps(1)

TerminationNext == WalkSteps \/ CallEnters \/ CallSteps

TerminationSpec ==
  /\ TerminationInit
  /\ [][TerminationNext]_vars
  /\ WF_vars(WalkSteps \/ CallSteps)

(***************************************************************************)
(* Properties of the codec (specification Spec).                           *)
(***************************************************************************)
DefinedKinds ==
  SkipWidthKinds \cup { kDexAnnotationArray, kDexAnnotationAnnotation,
                        kDexAnnotationBoolean, kDexAnnotationNull }

\* the payload bytes that follow the header byte of a scalar value in buf
StoredPayload == SubSeq(buf, 2, Len(buf))

\* C1 as stated: for every well-formed value and every style, Decode leaves
\* the cursor advanced by as many bytes as Skip does.
C1_ParityForEveryStyle ==
  (last.op = "Decode" /\ wellFormed) => last.ptr = SkipAnnotationValue(buf, 1).ptr

\* C1 amended: whenever Decode returns success on a well-formed value it
\* leaves the cursor exactly where Skip leaves it; when it returns failure
\* the cursor has not moved.
C1_ParityOnSuccess ==
  (last.op = "Decode" /\ wellFormed) =>
    /\ last.ret = "true" => last.ptr = SkipAnnotationValue(buf, 1).ptr
    /\ last.ret = "false" => last.ptr = 1

\* a nested array was decoded to its end
C1_Witness ==
  /\ last.op = "Decode" /\ wellFormed /\ last.ret = "true"
  /\ last.style = kAllObjects
  /\ Len(buf) >= 12
  /\ ValueType(buf[1]) = kDexAnnotationArray
  /\ ValueType(buf[3]) = kDexAnnotationArray
  /\ last.ptr = Len(buf) + 1

\* C5: a header byte with an unused tag makes both Skip and Decode abort;
\* neither returns true or false.
C5_UnknownTagIsFatal ==
  (last.op \in {"Skip", "Decode"} /\ ValueType(buf[1]) \notin DefinedKinds) =>
    last.ret = "fatal"

\* C6: a Type value whose index does not resolve decodes to the
\* type-not-present placeholder under kAllObjects and fails under
\* kPrimitivesOrObjects.
C6_UnresolvableType ==
  (/\ last.op = "Decode"
   /\ ValueType(buf[1]) = kDexAnnotationType
   /\ ToNat(StoredPayload) \notin ResolvableTypes) =>
    /\ last.style = kAllObjects =>
         /\ last.ret = "true"
         /\ last.value.value_.member = "L"
         /\ last.value.value_.l =
              [cls |-> "TypeNotPresentException", msg |-> TypeDescriptor[ToNat(StoredPayload)]]
    /\ last.style = kPrimitivesOrObjects => last.ret = "false"

C6_Witness ==
  /\ last.op = "Decode" /\ last.style = kAllObjects /\ last.ret = "true"
  /\ ValueType(buf[1]) = kDexAnnotationType
  /\ ToNat(StoredPayload) \notin ResolvableTypes
  /\ last.value.value_.l.cls = "TypeNotPresentException"

\* C7: an Array value decoded with no array class fails under every style,
\* and no container is returned.
C7_ArrayWithoutClassFails ==
  (/\ last.op = "Decode"
   /\ ValueType(buf[1]) = kDexAnnotationArray
   /\ last.klass = NullClass) =>
    /\ last.ret = "false"
    /\ last.value.value_ = UninitializedJValue
    /\ last.ptr = 1

C7_Witness ==
  /\ last.op = "Decode" /\ last.style = kAllObjects /\ last.klass = NullClass
  /\ ValueType(buf[1]) = kDexAnnotationArray /\ Len(buf) > 2
  /\ last.ret = "false"

\* C9: under kAllRaw no call to the resolution service is made and no
\* exception is left pending, whatever the value; a String, Type, Method,
\* Field or Enum value decodes successfully to its stored index,
\* zero-extended from its width.
C9_RawNeverResolves ==
  (last.op = "Decode" /\ last.style = kAllRaw) =>
    /\ last.calls = 0
    /\ ~last.exc
    /\ (wellFormed /\ ValueType(buf[1]) \in IndexKinds) =>
         /\ last.ret = "true"
         /\ last.value.type_ = ValueType(buf[1])
         /\ last.value.value_.member = "I"
         /\ last.value.value_.bits = StoredPayload \o Zeros(4 - Len(StoredPayload))
         /\ last.ptr = Len(buf) + 1

\* an index no table resolves was returned as stored
C9_Witness ==
  /\ last.op = "Decode" /\ last.style = kAllRaw /\ last.ret = "true"
  /\ ValueType(buf[1]) = kDexAnnotationString
  /\ StoredPayload = <<200>>
  /\ last.value.value_.bits = <<200, 0, 0, 0>>

\* arrays whose slots all hold primitive values
PrimitiveSlots ==
  { <<HeaderByte(kDexAnnotationInt, 1), 52, 18>>,
    <<HeaderByte(kDexAnnotationByte, 0), 133>>,
    <<HeaderByte(kDexAnnotationBoolean, 1)>> }
ArraysOfPrimitives ==
  { EncodedArray(slots) : slots \in SeqsUpTo(PrimitiveSlots, MaxArraySize) }

\* C8 as stated: under kAllRaw an Array value whose slots are all primitives
\* decodes successfully.
C8_RawArrayDecodes ==
  (last.op = "Decode" /\ last.style = kAllRaw /\ buf \in ArraysOfPrimitives) =>
    last.ret = "true"

\* C8 amended: under kAllRaw an Array value is refused whatever its slots and
\* whatever array class is supplied: Decode returns failure, writes no value
\* besides the kind, makes no resolution call and leaves the cursor on the
\* header byte, so that the caller reads the count and the slots itself.
C8_RawRefusesArrays ==
  (/\ last.op = "Decode" /\ last.style = kAllRaw /\ wellFormed
   /\ ValueType(buf[1]) = kDexAnnotationArray) =>
    /\ last.ret = "false"
    /\ last.ptr = 1
    /\ last.value.type_ = kDexAnnotationArray
    /\ last.value.value_ = UninitializedJValue
    /\ last.calls = 0 /\ ~last.exc

\* an array of two primitives was refused although an int[] class was supplied
C8_Witness ==
  /\ last.op = "Decode" /\ last.style = kAllRaw
  /\ last.klass = ArrayClassOf("I", 1)
  /\ buf \in ArraysOfPrimitives /\ Len(buf) > 4
  /\ last.ret = "false"

(***************************************************************************)
(* Properties of the searches (specification SearchSpec).                  *)
(***************************************************************************)
\* the elements of an encoded annotation body in stored order: the name of
\* each and the position of its value's header byte
RECURSIVE ElementTable(_, _, _)
ElementTable(data, ptr, n) ==
  IF n = 0 THEN <<>>
  ELSE LET name == DecodeUnsignedLeb128(data, ptr)
           value == SkipAnnotationValue(data, name.ptr)
       IN <<[name |-> StringData[name.val], value |-> name.ptr]>>
            \o ElementTable(data, value.ptr, n - 1)

ElementsOf(data) ==
  LET type_index == DecodeUnsignedLeb128(data, 1)
      size == DecodeUnsignedLeb128(data, type_index.ptr)
  IN ElementTable(data, size.ptr, size.val)

\* C2: SearchEncodedAnnotation returns the cursor at the value header byte of
\* the first element, in stored order, whose name equals the requested name,
\* and the null cursor exactly when no element has that name.
C2_FirstMatchingElement ==
  found.op = "SearchEncodedAnnotation" =>
    LET data == annotation_set[found.item].annotation_
        elements == ElementsOf(data)
        hits == { k \in DOMAIN elements : elements[k].name = found.key }
    IN /\ ~found.fatal
       /\ hits = {} <=> found.ptr = NullPtr
       /\ hits # {} =>
            /\ \E k \in hits : /\ \A j \in hits : k <= j
                               /\ found.ptr = elements[k].value
            /\ \E v \in SearchedValues :
                 SubSeq(data, found.ptr, found.ptr + Len(v) - 1) = v

\* the name occurs twice, after an element of another name holding an array
C2_Witness ==
  /\ found.op = "SearchEncodedAnnotation" /\ found.key = "b"
  /\ LET elements == ElementsOf(annotation_set[found.item].annotation_)
     IN /\ Len(elements) = 3
        /\ elements[1].name = "a" /\ elements[2].name = "b" /\ elements[3].name = "b"
        /\ elements[2].value - elements[1].value > 4
        /\ found.ptr = elements[2].value

LegacyMode == targetSdk # 0 /\ targetSdk <= kM

\* the records of annotation_set whose type is the one the last search asked for
RequestedType(i) ==
  LET type_index == DecodeUnsignedLeb128(annotation_set[i].annotation_, 1).val
  IN IF found.op = "SearchAnnotationSet"
     THEN TypeDescriptor[type_index] = found.key
     ELSE type_index \in ResolvableTypes /\ type_index = found.klass.type_idx

\* C3: a search for Runtime visibility finds a Build record only in legacy
\* mode (target SDK set and at most M) and finds it then; it never finds a
\* System record; a search for Build or System visibility finds only records
\* of exactly that visibility.
C3_VisibilityCompatibility ==
  found.op \in {"SearchAnnotationSet", "GetAnnotationItemFromAnnotationSet"} =>
    /\ found.item # NullItem =>
         LET actual == annotation_set[found.item].visibility_
         IN IF found.visibility = kDexVisibilityRuntime
            THEN \/ actual = kDexVisibilityRuntime
                 \/ actual = kDexVisibilityBuild /\ LegacyMode
            ELSE actual = found.visibility
    /\ (/\ found.visibility = kDexVisibilityRuntime /\ LegacyMode
        /\ \E i \in DOMAIN annotation_set :
             annotation_set[i].visibility_ = kDexVisibilityBuild /\ RequestedType(i)) =>
         found.item # NullItem
    /\ (/\ found.visibility = kDexVisibilityRuntime /\ ~LegacyMode
        /\ \A i \in DOMAIN annotation_set :
             RequestedType(i) => annotation_set[i].visibility_ # kDexVisibilityRuntime) =>
         found.item = NullItem

\* in legacy mode a Runtime search returned a Build record that follows a
\* System record of the same type
C3_Witness ==
  /\ found.op = "SearchAnnotationSet" /\ found.visibility = kDexVisibilityRuntime
  /\ targetSdk = kM
  /\ found.item = 2
  /\ annotation_set[1].visibility_ = kDexVisibilitySystem /\ RequestedType(1)
  /\ annotation_set[2].visibility_ = kDexVisibilityBuild

\* C4: SearchAnnotationSet returns the record of lowest index among those
\* whose visibility is compatible and whose type descriptor equals the
\* requested one, and null exactly when there is none.
C4_LowestMatchingRecord ==
  found.op = "SearchAnnotationSet" =>
    LET matches ==
          { i \in DOMAIN annotation_set :
              /\ IsVisibilityCompatible(annotation_set[i].visibility_, found.visibility,
                                        targetSdk)
              /\ RequestedType(i) }
    IN IF matches = {} THEN found.item = NullItem
       ELSE found.item \in matches /\ \A j \in matches : found.item <= j

\* two records match, after one of a type that sorts later
C4_Witness ==
  /\ found.op = "SearchAnnotationSet" /\ found.key = "LA;"
  /\ Len(annotation_set) = 3
  /\ ~RequestedType(1) /\ RequestedType(2) /\ RequestedType(3)
  /\ annotation_set[2].visibility_ = found.visibility
  /\ annotation_set[3].visibility_ = found.visibility
  /\ found.item = 2

\* the visibility test of the searches, from the mode
CompatibleRecord(i) ==
  \/ annotation_set[i].visibility_ = found.visibility
  \/ /\ found.visibility = kDexVisibilityRuntime /\ LegacyMode
     /\ annotation_set[i].visibility_ = kDexVisibilityBuild

\* C23: SearchEncodedAnnotation returns the null cursor exactly when none of
\* the elements of the body has the requested name, and SearchAnnotationSet
\* returns the null record exactly when no record of compatible visibility
\* has the requested type; neither ends in a failure, and no search changes
\* the annotation set, the target SDK or what was asked for.
C23_NotFoundIsAbsent ==
  /\ []((found.op = "SearchEncodedAnnotation") =>
          /\ ~found.fatal
          /\ found.ptr = NullPtr <=>
               \A k \in DOMAIN ElementsOf(annotation_set[found.item].annotation_) :
                 ElementsOf(annotation_set[found.item].annotation_)[k].name # found.key)
  /\ []((found.op = "SearchAnnotationSet") =>
          (found.item = NullItem <=>
             \A i \in DOMAIN annotation_set : ~(CompatibleRecord(i) /\ RequestedType(i))))
  /\ [][annotation_set' = annotation_set /\ targetSdk' = targetSdk /\ buf' = buf]_vars

\* the requested name is not among the three elements of the body
C23_Witness ==
  /\ found.op = "SearchEncodedAnnotation" /\ found.key = "value"
  /\ Len(ElementsOf(annotation_set[found.item].annotation_)) = 3
  /\ found.ptr = NullPtr /\ ~found.fatal

(***************************************************************************)
(* Properties of the visitor (specification VisitSpec).                    *)
(***************************************************************************)
\* C10 as stated: once the visitor has answered kVisitBreak, no call is made
\* to it again.
C10_BreakEndsTheWalk ==
  [][history.broke => history'.count = history.count]_vars

InnermostFrame(v) == v.frames[Len(v.frames)]

\* C10 amended: kVisitBreak ends the loop the answered call was made from.
\* Answered to VisitAnnotation it ends the walk.  Answered to an element of a
\* record it ends the elements of that record, and the walk goes on with the
\* next record.  Answered to a slot of an array it ends the slots of that
\* array: no later slot of it is reported, and the walk goes on after the
\* array.
C10_BreakEndsItsLoop ==
  [][/\ (history'.count = history.count + 1 /\ callback'.answer = kVisitBreak) =>
          CASE callback'.fn = "VisitAnnotation" -> visit'.pc = "done"
            [] callback'.fn = "VisitAnnotationElement" ->
                 \/ visit'.pc = "aborted"
                 \/ /\ visit'.pc = "annotations"
                    /\ visit'.i = visit.i + 1
            [] callback'.fn = "VisitArrayElement" ->
                 \/ visit'.pc = "aborted"
                 \/ /\ visit'.pc = "elements"
                    /\ Len(visit'.frames) = Len(visit.frames)
                    /\ InnermostFrame(visit').element_status = kVisitBreak
     /\ (/\ visit.pc = "elements" /\ visit.frames # <<>>
         /\ InnermostFrame(visit).element_status = kVisitBreak) =>
          /\ history'.count = history.count
          /\ \/ visit'.pc = "aborted"
             \/ /\ Len(visit'.frames) = Len(visit.frames) - 1
                /\ visit'.frames # <<>> =>
                     InnermostFrame(visit').element_status = InnermostFrame(visit).status
                /\ (visit'.frames = <<>> /\ visit'.pc = "elements") =>
                     InnermostFrame(visit).status # kVisitBreak
    ]_vars

\* kVisitBreak was answered to an element of the first record, and
\* VisitAnnotation has been called for the second
C10_Witness ==
  /\ history.broke
  /\ callback.fn = "VisitAnnotation" /\ callback.item = 2
  /\ history.count = 3

\* the record the walk is in
VisitedData == annotation_set[visit.i].annotation_

\* a step that calls the visitor for an element or a slot
ElementCall ==
  /\ history'.count = history.count + 1
  /\ callback'.fn # "VisitAnnotation"

C12_CursorPastTheValue ==
  [][wellFormed =>
       /\ ElementCall =>
            \/ /\ Len(visit'.frames) = Len(visit.frames) + 1
               /\ InnermostFrame(visit').start = callback'.at
            \/ /\ Len(visit'.frames) = Len(visit.frames)
               /\ visit'.pc # "aborted"
               /\ (visit'.pc = "elements" /\ visit'.i = visit.i) =>
                    visit'.annotation = SkipAnnotationValue(VisitedData, callback'.at).ptr
       /\ (/\ visit.pc = "elements" /\ visit.frames # <<>>
           /\ history'.count = history.count) =>
            /\ Len(visit'.frames) = Len(visit.frames) - 1
            /\ visit'.pc # "aborted"
            /\ (visit'.pc = "elements" /\ visit'.i = visit.i) =>
                 visit'.annotation =
                   SkipAnnotationValue(VisitedData, InnermostFrame(visit).start).ptr
    ]_vars

\* kVisitBreak was answered to slot 0 of an array of two, the array was left
\* and the cursor is on the element after the array
C12_Witness ==
  /\ wellFormed
  /\ callback.fn = "VisitArrayElement" /\ callback.index = 0
  /\ callback.answer = kVisitBreak
  /\ visit.pc = "elements" /\ visit.frames = <<>> /\ visit.size = 1
  /\ visit.annotation = SkipAnnotationValue(VisitedData, callback.at - 2).ptr
  /\ visit.annotation > callback.at + 3

\* C13 as stated: a slot n array levels below a top-level element is reported
\* at depth n.
C13_DepthIsArrayLevel ==
  [][(ElementCall /\ visit.frames # <<>>) => callback'.depth = Len(visit.frames)]_vars

\* C13 amended: a top-level element is reported by VisitAnnotationElement
\* with its name and without a depth; a slot n array levels below a top-level
\* element (n >= 1) is reported by VisitArrayElement at depth n - 1 with its
\* position in its array, so the depth reported starts at 0 for the slots of
\* a top-level array and grows by one per further array level.  The depth
\* is counted in eight bits, so this is for n below DepthModulus.
C13_DepthIsArrayLevelLessOne ==
  [][(ElementCall /\ Len(visit.frames) < DepthModulus) =>
       IF visit.frames = <<>>
       THEN /\ callback'.fn = "VisitAnnotationElement"
            /\ wellFormed =>
                 \E k \in DOMAIN ElementsOf(VisitedData) :
                   /\ ElementsOf(VisitedData)[k].value = callback'.at
                   /\ ElementsOf(VisitedData)[k].name = callback'.name
       ELSE /\ callback'.fn = "VisitArrayElement"
            /\ callback'.depth = Len(visit.frames) - 1
            /\ callback'.index = InnermostFrame(visit).i
    ]_vars

\* slot 1 of an array that is slot 0 of a top-level array was reported
C13_Witness ==
  /\ callback.fn = "VisitArrayElement"
  /\ callback.depth = 1 /\ callback.index = 1
  /\ Len(visit.frames) = 2

(***************************************************************************)
(* Further properties of the codec (specification Spec).                   *)
(***************************************************************************)
StoredIndex == ToNat(StoredPayload)
StoredArg == buf[1] \div 32
ResolvingStyles == {kAllObjects, kPrimitivesOrObjects}

\* the reference the last Decode was asked to resolve does not resolve
UnresolvableReference ==
  \/ ValueType(buf[1]) = kDexAnnotationString /\ StoredIndex \notin ResolvableStrings
  \/ ValueType(buf[1]) = kDexAnnotationMethod /\ StoredIndex \notin ResolvableMethods
  \/ /\ ValueType(buf[1]) \in {kDexAnnotationField, kDexAnnotationEnum}
     /\ StoredIndex \notin ResolvableFields

\* C14: a String, Method, Field or Enum value whose index does not resolve,
\* decoded under kAllObjects or kPrimitivesOrObjects, makes Decode return
\* false with the resolver's exception still pending.
C14_UnresolvedReferenceStaysPending ==
  (/\ last.op = "Decode" /\ wellFormed
   /\ last.style \in ResolvingStyles
   /\ UnresolvableReference) =>
    /\ last.ret = "false"
    /\ last.exc
    /\ last.value.value_ = UninitializedJValue

C14_Witness ==
  /\ last.op = "Decode" /\ wellFormed /\ last.style = kPrimitivesOrObjects
  /\ ValueType(buf[1]) = kDexAnnotationEnum /\ StoredIndex = 200
  /\ last.ret = "false" /\ last.exc

ScalarKinds == NumericKinds \cup {kDexAnnotationBoolean}
ReferenceKinds ==
  IndexKinds \cup {kDexAnnotationArray, kDexAnnotationAnnotation, kDexAnnotationNull}

\* C16: a scalar value decodes under kAllObjects to a boxed object of the
\* scalar's primitive type that holds exactly the bits the same value decodes
\* to, unboxed, under kPrimitivesOrObjects; under kPrimitivesOrObjects a
\* reference is returned only for String, Type, Method, Field, Enum, Array,
\* Annotation and Null values.
C16_BoxingPolicy ==
  (last.op = "Decode" /\ wellFormed /\ last.style \in ResolvingStyles) =>
    /\ ValueType(buf[1]) \in ScalarKinds =>
         LET unboxed == ProcessAnnotationValue(buf, 1, last.klass,
                                               kPrimitivesOrObjects).value.value_
         IN /\ last.ret = "true"
            /\ unboxed.member \notin {"L", "U"}
            /\ Len(unboxed.bits) \in {1, 2, 4, 8}
            /\ IF last.style = kAllObjects
               THEN /\ last.value.value_.member = "L"
                    /\ last.value.value_.l =
                         [cls |-> "Boxed", prim |-> PrimitiveStoreOf(ValueType(buf[1])),
                          boxed |-> unboxed.bits]
               ELSE last.value.value_ = unboxed
    /\ (/\ last.style = kPrimitivesOrObjects /\ last.ret = "true"
        /\ last.value.value_.member = "L") =>
         ValueType(buf[1]) \in ReferenceKinds

\* a Long stored in eight bytes was boxed
C16_Witness ==
  /\ last.op = "Decode" /\ wellFormed /\ last.style = kAllObjects
  /\ ValueType(buf[1]) = kDexAnnotationLong /\ StoredArg = 7
  /\ last.value.value_.member = "L"
  /\ last.value.value_.l.cls = "Boxed"
  /\ last.value.value_.l.boxed = StoredPayload

\* C17: in an array that Decode built, a slot written through the object
\* store holds a reference, never the bits of a scalar read as one, and a
\* slot written through a numeric store was written through the store of
\* the array's own component type.
C17_ArrayElementRouting ==
  (/\ last.op = "Decode" /\ wellFormed /\ last.ret = "true"
   /\ ValueType(buf[1]) = kDexAnnotationArray) =>
    \A k \in DOMAIN last.value.value_.l.slots :
      LET slot == last.value.value_.l.slots[k]
      IN IF slot.store = "L"
         THEN slot.obj.cls # "not-a-reference"
         ELSE last.klass.dims = 1 /\ slot.store = last.klass.base

\* the end of a value made of the header byte and arg + 1 payload bytes, or
\* of the header byte alone
ExpectedEnd ==
  IF ValueType(buf[1]) \in {kDexAnnotationBoolean, kDexAnnotationNull}
  THEN 2 ELSE 1 + 1 + (StoredArg + 1)

\* the bits the last Decode produced, boxed or not
DecodedBits ==
  IF last.value.value_.member = "L" THEN last.value.value_.l.boxed
  ELSE last.value.value_.bits

\* C19 as stated: Skip and Decode both consume the header byte and arg + 1
\* payload bytes of a Byte, Short, Char, Int, Long, Float, Double, String,
\* Type, Method, Field or Enum value, and the header byte alone of a Boolean
\* or Null value.
C19_SpanOfEveryCall ==
  (/\ last.op \in {"Skip", "Decode"} /\ wellFormed
   /\ ValueType(buf[1]) \in ScalarKinds \cup IndexKinds \cup {kDexAnnotationNull}) =>
    last.ptr = ExpectedEnd

\* C19 amended: Skip always, and Decode whenever it returns true, consume the
\* header byte and arg + 1 payload bytes of a Byte, Short, Char, Int, Long,
\* Float, Double, String, Type, Method, Field or Enum value, and the header
\* byte alone of a Boolean or Null value whatever arg is; a Decode that
\* returns false has consumed nothing.  Boolean always decodes, to true
\* exactly when arg is not 0.
C19_SpanOfEverySuccessfulCall ==
  (/\ last.op \in {"Skip", "Decode"} /\ wellFormed
   /\ ValueType(buf[1]) \in ScalarKinds \cup IndexKinds \cup {kDexAnnotationNull}) =>
    /\ last.op = "Skip" => last.ret = "true"
    /\ last.ret = "true" => last.ptr = ExpectedEnd
    /\ last.ret = "false" => last.ptr = 1
    /\ last.ret # "fatal"
    /\ (last.op = "Decode" /\ ValueType(buf[1]) = kDexAnnotationBoolean) =>
         /\ last.ret = "true"
         /\ DecodedBits = <<IF StoredArg = 0 THEN 0 ELSE 1>>

\* a Boolean whose arg is 7 was decoded to true from its header byte alone
C19_Witness ==
  /\ last.op = "Decode" /\ wellFormed /\ last.style = kPrimitivesOrObjects
  /\ ValueType(buf[1]) = kDexAnnotationBoolean /\ StoredArg = 7
  /\ Len(buf) = 1 /\ last.ptr = 2
  /\ last.value.value_.bits = <<1>>

\* C20: a Float or Double stored in fewer bytes than its width decodes to
\* the bit pattern whose most significant bytes are the stored ones and
\* whose remaining low bytes are zero; a Float stored in one byte b decodes
\* to b * 2^24.
C20_FloatFilledOnRight ==
  (/\ last.op = "Decode" /\ wellFormed
   /\ ValueType(buf[1]) \in {kDexAnnotationFloat, kDexAnnotationDouble}) =>
    LET full == IF ValueType(buf[1]) = kDexAnnotationFloat THEN 4 ELSE 8
    IN /\ last.ret = "true"
       /\ DecodedBits = Zeros(full - Len(StoredPayload)) \o StoredPayload
       /\ (ValueType(buf[1]) = kDexAnnotationFloat /\ StoredArg = 0) =>
            /\ SubSeq(DecodedBits, 1, 3) = <<0, 0, 0>>
            /\ DecodedBits[4] = buf[2]

\* a Float stored in the one byte 255 was decoded
C20_Witness ==
  /\ last.op = "Decode" /\ wellFormed /\ last.style = kAllRaw
  /\ ValueType(buf[1]) = kDexAnnotationFloat /\ StoredArg = 0
  /\ buf[2] = 255
  /\ last.value.value_.bits = <<0, 0, 0, 255>>

\* C24: whenever ProcessAnnotationValue returns false (the raw style on an
\* Array or an Annotation, an Array without an array class, a tag of no
\* kind, a reference that does not resolve, a failure of a nested element),
\* the caller's cursor is where it was before the call, and type_ of the
\* output value holds the kind read from the header byte.
C24_FailureLeavesCursor ==
  (last.op = "Decode" /\ last.ret = "false") =>
    /\ last.ptr = 1
    /\ last.value.type_ = ValueType(buf[1])

\* a well-formed array was refused because a reference in its second slot
\* did not resolve
C24_Witness ==
  /\ last.op = "Decode" /\ last.ret = "false" /\ last.exc
  /\ wellFormed /\ last.style = kAllObjects
  /\ ValueType(buf[1]) = kDexAnnotationArray
  /\ buf[2] = 2
  /\ ValueType(buf[3]) \notin IndexKinds \cup {kDexAnnotationArray, kDexAnnotationAnnotation}
  /\ last.calls >= 1
  /\ last.ptr = 1 /\ last.value.type_ = kDexAnnotationArray

\* C26: the slots of an array are decoded under kPrimitivesOrObjects whatever
\* style the array is decoded under: an array decoded under kAllObjects gives
\* what it gives under kPrimitivesOrObjects, and when its first slot is a
\* Type that does not resolve the call returns false with the resolver's
\* exception pending and the cursor unmoved; no placeholder is stored.
C26_NoPlaceholderInArrays ==
  (/\ last.op = "Decode" /\ wellFormed /\ last.style = kAllObjects
   /\ ValueType(buf[1]) = kDexAnnotationArray) =>
    /\ LET r == ProcessAnnotationValue(buf, 1, last.klass, kPrimitivesOrObjects)
       IN last.ret = r.ret /\ last.ptr = r.ptr /\ last.value = r.value /\ last.exc = r.exc
    /\ (/\ IsArrayClass(last.klass) /\ buf[2] >= 1
        /\ ValueType(buf[3]) = kDexAnnotationType
        /\ ToNat(ReadBytes(buf, 4, ValueArg(buf[3]) + 1)) \notin ResolvableTypes) =>
         /\ last.ret = "false" /\ last.exc /\ last.ptr = 1
         /\ last.value.value_ = UninitializedJValue

\* an array of two Types that do not resolve was refused under kAllObjects
C26_Witness ==
  /\ last.op = "Decode" /\ wellFormed /\ last.style = kAllObjects
  /\ last.klass = ArrayClassOf("Ljava/lang/Object;", 2)
  /\ buf = EncodedArray(<<<<HeaderByte(kDexAnnotationType, 1), 2, 0>>,
                          <<HeaderByte(kDexAnnotationType, 1), 2, 0>>>>)
  /\ last.ret = "false" /\ last.exc

(***************************************************************************)
(* Properties of ProcessAnnotationSet and of the swallowed resolution      *)
(* failures (specification ExtractSpec).                                   *)
(***************************************************************************)
ItemTypeIndex(i) == DecodeUnsignedLeb128(annotation_set[i].annotation_, 1).val

\* the records whose visibility is exactly the one asked for
SameVisibility == { i \in DOMAIN annotation_set : annotation_set[i].visibility_ = found.visibility }

\* the k-th smallest member of a set of indices
KthOf(S, k) == CHOOSE i \in S : Cardinality({ j \in S : j < i }) = k - 1

BuildRecords ==
  { i \in DOMAIN annotation_set :
      /\ annotation_set[i].visibility_ = kDexVisibilityBuild
      /\ ItemTypeIndex(i) \in ResolvableTypes }

\* the records of the visibility asked for whose type cannot be resolved
UnresolvedRecords == { i \in SameVisibility : ItemTypeIndex(i) \notin ResolvableTypes }

\* C28: ProcessAnnotationSet asked for Runtime takes the Runtime-tagged
\* records only, in legacy-compatibility mode too: the array holds no more
\* annotations than there are Runtime-tagged records, and is empty when all
\* records are Build-tagged, while in that mode both single-record searches
\* for Runtime over the same set do find a Build-tagged record, by its
\* descriptor and by its class.  A record of the visibility asked for whose
\* annotation type cannot be resolved is left out: where no record fails
\* otherwise, the call returns its array, shorter than the number of
\* records of that visibility, with nothing pending.
C28_FullSetIgnoresLegacyMode ==
  /\ (found.op = "ProcessAnnotationSet" /\ found.visibility = kDexVisibilityRuntime) =>
       /\ Len(found.objects) <= Cardinality(SameVisibility)
       /\ (\A i \in DOMAIN annotation_set :
             annotation_set[i].visibility_ = kDexVisibilityBuild) => found.objects = <<>>
       /\ LegacyMode =>
            \A i \in BuildRecords :
              /\ SearchAnnotationSet(annotation_set, TypeDescriptor[ItemTypeIndex(i)],
                                     kDexVisibilityRuntime, targetSdk) # NullItem
              /\ GetAnnotationItemFromAnnotationSet(
                     annotation_set, kDexVisibilityRuntime,
                     [cls |-> "Class", type_idx |-> ItemTypeIndex(i)], targetSdk).item
                   # NullItem
  /\ (/\ found.op = "GetAnnotationItemFromAnnotationSet"
      /\ found.visibility = kDexVisibilityRuntime
      /\ LegacyMode
      /\ \E i \in BuildRecords : ItemTypeIndex(i) = found.klass.type_idx) =>
       found.item # NullItem
  /\ (/\ found.op = "ProcessAnnotationSet"
      /\ UnresolvedRecords # {}
      /\ \A i \in SameVisibility : annotation_set[i].annotation_ # UnresolvableStringBody) =>
       /\ found.ret = "array" /\ ~found.exc
       /\ Len(found.objects) = Cardinality(SameVisibility \ UnresolvedRecords)
       /\ Len(found.objects) < Cardinality(SameVisibility)

\* in legacy-compatibility mode a set of one Build-tagged record that
\* materializes and one Runtime-tagged record of a type that cannot be
\* resolved gave an empty array with nothing pending
C28_Witness ==
  /\ found.op = "ProcessAnnotationSet" /\ found.visibility = kDexVisibilityRuntime
  /\ LegacyMode
  /\ Len(annotation_set) = 2
  /\ annotation_set[1] = [visibility_ |-> kDexVisibilityBuild, annotation_ |-> MaterializedBody]
  /\ annotation_set[2] = [visibility_ |-> kDexVisibilityRuntime,
                          annotation_ |-> UnresolvableTypeBody]
  /\ found.ret = "array" /\ found.objects = <<>> /\ ~found.exc

(***************************************************************************)
(* Further properties of the visitor (specification VisitSpec).            *)
(***************************************************************************)
\* the positions of the values that are reported when every array is
\* entered, in stored order: n consecutive values from ptr on, each followed
\* by the slots inside it
RECURSIVE ReportedSlots(_, _, _)
ReportedSlots(data, ptr, n) ==
  IF n = 0 THEN <<>>
  ELSE LET size == DecodeUnsignedLeb128(data, ptr + 1)
       IN <<ptr>>
          \o (IF ValueType(data[ptr]) = kDexAnnotationArray
                THEN ReportedSlots(data, size.ptr, size.val) ELSE <<>>)
          \o ReportedSlots(data, SkipAnnotationValue(data, ptr).ptr, n - 1)

\* the same for the n named elements of a record from ptr on
RECURSIVE ReportedElements(_, _, _)
ReportedElements(data, ptr, n) ==
  IF n = 0 THEN <<>>
  ELSE LET name == DecodeUnsignedLeb128(data, ptr)
       IN ReportedSlots(data, name.ptr, 1)
          \o ReportedElements(data, SkipAnnotationValue(data, name.ptr).ptr, n - 1)

\* the record itself (cursor 1) and then its elements
ReportedOfItem(i) ==
  LET data == annotation_set[i].annotation_
      type_index == DecodeUnsignedLeb128(data, 1)
      size == DecodeUnsignedLeb128(data, type_index.ptr)
      at == ReportedElements(data, size.ptr, size.val)
  IN <<<<i, 1>>>> \o [k \in DOMAIN at |-> <<i, at[k]>>]

RECURSIVE ReportedUpTo(_)
ReportedUpTo(i) == IF i = 0 THEN <<>> ELSE ReportedUpTo(i - 1) \o ReportedOfItem(i)

\* C21: in any walk no record, element or slot is reported twice.  In a walk
\* where the visitor never answers kVisitBreak and answers kVisitInner to
\* every record and every array, the calls made so far are a prefix of the
\* records, their elements and the slots of their arrays at every nesting
\* level in stored order, each once; when the walk is over they are all of
\* them.
C21_EachReportedOnceInOrder ==
  /\ \A j, k \in DOMAIN history.seen : j # k => history.seen[j] # history.seen[k]
  /\ (wellFormed /\ history.inner) =>
       LET all == ReportedUpTo(Len(annotation_set))
       IN /\ Len(history.seen) <= Len(all)
          /\ history.seen = SubSeq(all, 1, Len(history.seen))
          /\ visit.pc = "done" => history.seen = all

\* a walk over two records, the first with an array of an array, is over and
\* every answer went inward: eight calls were made
C21_Witness ==
  /\ visit.pc = "done" /\ history.inner /\ wellFormed
  /\ Len(annotation_set) = 2
  /\ annotation_set[1].annotation_ =
       EncodedPairs(0, <<<<0, EncodedArray(<<EncodedArray(<<VisitedByte, VisitedInt>>),
                                             VisitedInt>>)>>>>)
  /\ annotation_set[2].annotation_ = EncodedPairs(1, <<<<2, VisitedInt>>>>)
  /\ history.count = 8
  /\ history.seen[8] = <<2, 4>>

\* C25: when a slot of an entered array was answered kVisitBreak, the next
\* step makes no call to the visitor: the slots left are skipped, the cursor
\* ends where SkipAnnotationValue run on the array ends, and what the array
\* hands to its parent is the answer given to the array itself, kVisitInner:
\* an enclosing array goes on with its next slot, a record with its next
\* element.
C25_BreakInArrayIsLocal ==
  [][(/\ wellFormed /\ visit.pc = "elements" /\ visit.frames # <<>>
      /\ InnermostFrame(visit).element_status = kVisitBreak) =>
       LET frame == InnermostFrame(visit)
           past == SkipAnnotationValue(VisitedData, frame.start).ptr
       IN /\ history'.count = history.count
          /\ frame.status = kVisitInner
          /\ Len(visit'.frames) = Len(visit.frames) - 1
          /\ IF Len(visit.frames) >= 2
               THEN /\ visit'.pc = "elements"
                    /\ visit'.annotation = past
                    /\ InnermostFrame(visit').element_status = kVisitInner
                    /\ InnermostFrame(visit').i = visit.frames[Len(visit.frames) - 1].i + 1
               ELSE IF visit.size > 1
                 THEN /\ visit'.pc = "elements" /\ visit'.i = visit.i
                      /\ visit'.size = visit.size - 1
                      /\ visit'.annotation = past
                 ELSE visit'.pc = "annotations" /\ visit'.i = visit.i + 1
    ]_vars

\* slot 0 of an array inside a top-level array was answered kVisitBreak; the
\* inner array was left with a slot unvisited, and the outer array is at its
\* slot 1
C25_Witness ==
  /\ wellFormed
  /\ callback.fn = "VisitArrayElement" /\ callback.depth = 1 /\ callback.index = 0
  /\ callback.answer = kVisitBreak
  /\ visit.pc = "elements" /\ Len(visit.frames) = 1
  /\ visit.frames[1].i = 1 /\ visit.frames[1].element_status = kVisitInner
  /\ visit.annotation = SkipAnnotationValue(VisitedData, callback.at - 2).ptr
  /\ visit.annotation > callback.at + 2

(***************************************************************************)
(* The depth counter (specification DeepVisitSpec).                        *)
(***************************************************************************)
\* C27: whatever the number of arrays a value is inside of, 256 and more
\* included, it is reported by VisitArrayElement with its position in its
\* array, never by VisitAnnotationElement.
C27_DepthNeverWraps ==
  [][(ElementCall /\ visit.frames # <<>>) =>
       /\ callback'.fn = "VisitArrayElement"
       /\ callback'.index = InnermostFrame(visit).i
    ]_vars

(***************************************************************************)
(* Properties of GetAnnotationValue (specification ValueSpec).             *)
(***************************************************************************)
\* the value header byte of the first element of the record that has the
\* requested name; 0 if there is none
RequestedElement ==
  LET elements == ElementsOf(annotation_set[found.item].annotation_)
      hits == { k \in DOMAIN elements : elements[k].name = found.key }
  IN IF hits = {} THEN NullPtr
     ELSE elements[CHOOSE k \in hits : \A j \in hits : k <= j].value

\* the kind in the header byte of the requested element
RequestedKind == ValueType(annotation_set[found.item].annotation_[RequestedElement])

\* C29: GetAnnotationValue returns an object only if the named element
\* exists, its materialization under kAllObjects succeeded and the kind in
\* its header byte is the expected one; where the element exists and was
\* materialized but its kind is another, nullptr is returned.
C29_ChecksDecodedKind ==
  found.op = "GetAnnotationValue" =>
    /\ found.ret = "returned"
    /\ found.obj # NullObject =>
         /\ RequestedElement # NullPtr
         /\ found.result = "true"
         /\ RequestedKind = found.expected_type
    /\ RequestedElement = NullPtr => found.result = "none"
    /\ (/\ RequestedElement # NullPtr
        /\ found.result = "true"
        /\ RequestedKind # found.expected_type) => found.obj = NullObject

\* an Int element was materialized, a String was expected, nullptr came back
C29_Witness ==
  /\ found.op = "GetAnnotationValue" /\ found.key = "b"
  /\ found.expected_type = kDexAnnotationString
  /\ RequestedElement # NullPtr
  /\ RequestedKind = kDexAnnotationInt
  /\ found.result = "true" /\ found.obj = NullObject /\ ~found.exc

(***************************************************************************)
(* Properties of concurrent callers (specification ConcurrentSpec).        *)
(***************************************************************************)
\* what the call returns when it runs alone, from its first statement to its
\* return
RunsAlone(call) ==
  LET data == annotation_set[1].annotation_
  IN CASE call.op = "SkipAnnotationValue" ->
            LET r == SkipAnnotationValue(data, call.start)
            IN [ret |-> r.ret, ptr |-> r.ptr, item |-> 0, value |-> NoAnnotationValue]
       [] call.op = "SearchEncodedAnnotation" ->
            [ret |-> "true", ptr |-> SearchEncodedAnnotation(data, 1, call.key).ptr,
             item |-> 0, value |-> NoAnnotationValue]
       [] call.op = "SearchAnnotationSet" ->
            [ret |-> "true", ptr |-> 1,
             item |-> SearchAnnotationSet(annotation_set, call.key, call.visibility,
                                          targetSdk),
             value |-> NoAnnotationValue]
       [] call.op = "ProcessAnnotationValue" ->
            LET r == ProcessAnnotationValue(data, call.start, NullClass, kAllRaw)
            IN [ret |-> r.ret, ptr |-> r.ptr, item |-> 0, value |-> r.value]
       [] OTHER -> \* no call was made
            [ret |-> "none", ptr |-> 1, item |-> 0, value |-> NoAnnotationValue]

\* C22: whatever the interleaving of the steps of the callers, a call that
\* has returned has the result, the final cursor and the output value it has
\* when run alone; and no step changes the bytes of the annotation set.
C22_InterferenceFree ==
  /\ [](\A t \in Callers :
          callers[t].run.pc = "done" =>
            LET run == callers[t].run
            IN [ret |-> run.ret, ptr |-> run.ptr, item |-> run.item, value |-> run.value]
                 = RunsAlone(callers[t].call))
  /\ [][annotation_set' = annotation_set]_vars

\* caller 1 has skipped the array of element b while caller 2 is inside the
\* inner array of the same element
C22_Witness ==
  /\ callers[1].call.op = "SkipAnnotationValue" /\ callers[1].call.start = 8
  /\ callers[1].run.pc = "done" /\ callers[1].run.ptr = 15
  /\ callers[2].call.op = "SearchEncodedAnnotation" /\ callers[2].call.key = "value"
  /\ callers[2].run.pc = "run" /\ Len(callers[2].run.frames) = 3

(***************************************************************************)
(* Termination (specification TerminationSpec).                            *)
(***************************************************************************)
Larger(a, b) == IF a >= b THEN a ELSE b

\* how many arrays and annotations deep the deepest of n consecutive values
\* from ptr on is nested, the values being preceded by a name index if named
RECURSIVE DeepestOf(_, _, _, _)
DeepestOf(data, ptr, n, named) ==
  IF n = 0 THEN 0
  ELSE LET at == IF named THEN DecodeUnsignedLeb128(data, ptr).ptr ELSE ptr
           size == DecodeUnsignedLeb128(data, at + 1)
           inner_size == DecodeUnsignedLeb128(data, size.ptr)
       IN Larger(CASE ValueType(data[at]) = kDexAnnotationArray ->
                        1 + DeepestOf(data, size.ptr, size.val, FALSE)
                   [] ValueType(data[at]) = kDexAnnotationAnnotation ->
                        1 + DeepestOf(data, inner_size.ptr, inner_size.val, TRUE)
                   [] OTHER -> 0,
                 DeepestOf(data, SkipAnnotationValue(data, at).ptr, n - 1, named))

\* the size an array, or the element count an annotation, is encoded with
EncodedCountAt(data, at) ==
  LET size == DecodeUnsignedLeb128(data, at + 1)
  IN IF ValueType(data[at]) = kDexAnnotationArray THEN size.val
     ELSE DecodeUnsignedLeb128(data, size.ptr).val

\* the cursor at the first element of a record and its element count
ElementsAt(data) == DecodeUnsignedLeb128(data, DecodeUnsignedLeb128(data, 1).ptr)

\* what is left to do in every loop of the call of caller 1 is within what
\* the bytes encode, and its activations nest no deeper than the values do
CallWithinEncoding ==
  LET call == callers[1].call
      frames == callers[1].run.frames
      data == annotation_set[1].annotation_
      search == call.op = "SearchEncodedAnnotation"
  IN (call.op \in {"SkipAnnotationValue", "SearchEncodedAnnotation"}
        /\ callers[1].run.pc = "run") =>
       /\ frames[1].size \in 0 .. (IF search THEN ElementsAt(data).val ELSE 1)
       /\ \A k \in 2 .. Len(frames) :
            frames[k].size \in 0 .. EncodedCountAt(data, frames[k - 1].annotation)
       /\ Len(frames) - 1 <=
            IF search THEN DeepestOf(data, ElementsAt(data).ptr, ElementsAt(data).val, TRUE)
            ELSE DeepestOf(data, call.start, 1, FALSE)

\* the same for the walk: the loop over the records, the loop over the
\* elements of a record and the loop over the slots of every array entered;
\* the calls to the visitor are no more than there are values to report
WalkWithinEncoding ==
  /\ visit.pc # "idle" =>
       /\ visit.i \in 1 .. Len(annotation_set) + 1
       /\ history.count <= Len(ReportedUpTo(Len(annotation_set)))
  /\ visit.pc = "elements" =>
       /\ visit.size \in 1 .. ElementsAt(VisitedData).val
       /\ \A k \in DOMAIN visit.frames :
            /\ visit.frames[k].array_size = EncodedCountAt(VisitedData, visit.frames[k].start)
            /\ visit.frames[k].i \in 0 .. visit.frames[k].array_size
       /\ Len(visit.frames) <=
            DeepestOf(VisitedData, ElementsAt(VisitedData).ptr, ElementsAt(VisitedData).val,
                      TRUE)

\* C30: over well-formed bytes SkipAnnotationValue, SearchEncodedAnnotation
\* and VisitClassAnnotations end, whatever the visitor answers: a walk that
\* was begun is over at some time and so is a call that was entered; no
\* loop makes more iterations than the count it was encoded with and the
\* activations nest no deeper than the values are nested in the bytes.
C30_Terminates ==
  /\ [](CallWithinEncoding /\ WalkWithinEncoding)
  /\ (visit.pc # "idle" \/ callers[1].call.op # "none")
       ~> (visit.pc = "done" \/ callers[1].run.pc = "done")

\* the walk over a record holding an array of an array and an annotation is
\* over after the visitor answered kVisitInner to the record and to every
\* array: every value there is to report was reported
C30_Witness ==
  /\ visit.pc = "done" /\ history.inner
  /\ Len(annotation_set) = 1
  /\ Len(ElementsOf(annotation_set[1].annotation_)) = 3
  /\ history.count = Len(ReportedUpTo(1))
  /\ history.count = 7

====
